---- MODULE Spec2Model ----
(***************************************************************************)
(* Fleet command dispatcher of src/bot.py (src/vps.py is the same program  *)
(* with a different main dispatch): config store, liveness prober, command *)
(* handlers, upload conversation and attack worker threads.                *)
(*                                                                         *)
(* Conventions.                                                            *)
(*  - A token is a sequence of atoms (one-character strings, or one opaque *)
(*    word); a message text is the sequence of tokens str.split() yields.  *)
(*  - The config file is a JSON text: a sequence of objects whose values   *)
(*    are JSON tokens <<"str", s>> or <<"lit", "true"|"false">>; a record  *)
(*    in the file may lack the "busy" key.                                 *)
(*  - io is the trace of external calls (messaging, remote session, local  *)
(*    file, thread start) made by the last step, in call order.            *)
(*  - workers is the bag of running execute_attack threads.                *)
(*  - Messaging calls made by the handlers in the poll loop's thread        *)
(*    return normally; a worker's send_message may raise (execute_attack   *)
(*    catches it), and so may get_updates (nothing catches it).            *)
(*  - offset is the poll loop's cursor, <<>> for None and <<n>> for n;     *)
(*    updates is the rest of the fetched batch the loop is iterating over. *)
(*  - The reaction bot's /react handler is a separate program; its steps   *)
(*    use io as the trace of calls on the bot and on the command message.  *)
(***************************************************************************)
EXTENDS Integers, Sequences, FiniteSets, Bags, TLC

VARIABLES running, disk, VPS_LIST, user_data, workers, local_files, io,
          offset, updates

(* The parallel-reactions bot (src/parallel_reactions_bot.py, started by   *)
(* src/run_bot.py): its environment and process, the dictionaries of the   *)
(* bot object, the handler invocations in flight and the pending reaction  *)
(* coroutines; launched counts the reaction coroutines ever created.       *)
VARIABLES environ, process, active_tasks, reaction_counts, invocations,
          reaction_tasks, launched

vars == <<running, disk, VPS_LIST, user_data, workers, local_files, io,
          offset, updates, environ, process, active_tasks, reaction_counts,
          invocations, reaction_tasks, launched>>

(* The fleet dispatcher and the reaction bot are separate programs: a step *)
(* of one leaves the state of the other alone.                             *)
ReactionsBotIdle ==
  UNCHANGED <<environ, process, active_tasks, reaction_counts, invocations,
              reaction_tasks, launched>>

FleetIdle ==
  UNCHANGED <<running, disk, VPS_LIST, user_data, workers, local_files,
              offset, updates>>

(***************************************************************************)
(* Bounds of the model.                                                    *)
(***************************************************************************)
MaxHosts == 2

MaxWorkers == 2

(* Largest update identifier the messaging service hands out, and the      *)
(* largest batch one fetch returns.                                        *)
MaxUpdateId == 3

MaxBatch == 2

(* Most emoji arguments of one /react command. *)
MaxEmojis == 2

(* Most /parallel invocations, and most text messages, of one run of the   *)
(* parallel-reactions bot.                                                 *)
MaxDemos == 2

MaxTexts == 2

(***************************************************************************)
(* Program constants.                                                      *)
(***************************************************************************)
ADMIN == 1419969308

ADMIN_IDS == <<ADMIN>>

DEFAULT_TIME_DURATION == 120

DEFAULT_THREADS == 100

MAX_TIME_DURATION == 240

MAX_THREADS == 5000

(* A chat id that is not in ADMIN_IDS. *)
STRANGER == ADMIN + 1

ChatIds == {ADMIN, STRANGER}

(***************************************************************************)
(* Tokens.                                                                 *)
(***************************************************************************)
Digits == {"0", "1", "2", "3", "4", "5", "6", "7", "8", "9"}

DigitVal(c) ==
  CASE c = "0" -> 0 [] c = "1" -> 1 [] c = "2" -> 2 [] c = "3" -> 3
    [] c = "4" -> 4 [] c = "5" -> 5 [] c = "6" -> 6 [] c = "7" -> 7
    [] c = "8" -> 8 [] c = "9" -> 9

DigitChar(n) ==
  CASE n = 0 -> "0" [] n = 1 -> "1" [] n = 2 -> "2" [] n = 3 -> "3"
    [] n = 4 -> "4" [] n = 5 -> "5" [] n = 6 -> "6" [] n = 7 -> "7"
    [] n = 8 -> "8" [] n = 9 -> "9"

RECURSIVE DigitsValue(_)
DigitsValue(s) ==
  IF s = <<>> THEN 0
  ELSE LET c == s[Len(s)]
           front == SubSeq(s, 1, Len(s) - 1)
       IN  IF c = "_" THEN DigitsValue(front)
           ELSE 10 * DigitsValue(front) + DigitVal(c)

(* The digit part of a Python integer literal: digits, single underscores  *)
(* only between digits.                                                    *)
DigitsOk(s) ==
  /\ s # <<>>
  /\ s[1] \in Digits
  /\ s[Len(s)] \in Digits
  /\ \A i \in 1..Len(s) : s[i] \in Digits \cup {"_"}
  /\ \A i \in 1..(Len(s) - 1) : ~(s[i] = "_" /\ s[i + 1] = "_")

(* int(tok): ok is FALSE where Python raises ValueError. *)
ParseInt(tok) ==
  LET signed == tok # <<>> /\ tok[1] \in {"+", "-"}
      body == IF signed THEN SubSeq(tok, 2, Len(tok)) ELSE tok
  IN  IF DigitsOk(body)
      THEN [ok |-> TRUE,
            val |-> IF signed /\ tok[1] = "-" THEN 0 - DigitsValue(body)
                    ELSE DigitsValue(body)]
      ELSE [ok |-> FALSE, val |-> 0]

(* str(n) *)
RECURSIVE NatStr(_)
NatStr(n) ==
  IF n < 10 THEN <<DigitChar(n)>>
  ELSE Append(NatStr(n \div 10), DigitChar(n % 10))

IntStr(n) == IF n < 0 THEN <<"-">> \o NatStr(0 - n) ELSE NatStr(n)

(* A command keyword "/word". *)
Cmd(word) == <<"/", word>>

(***************************************************************************)
(* Host addresses, credentials and other inputs.                           *)
(***************************************************************************)
IP1 == <<"45.32.167.254">>

IP2 == <<"65.20.87.118">>

IP3 == <<"10.0.0.3">>

IP_UNKNOWN == <<"10.9.9.9">>

USER1 == <<"master_a">>

USER2 == <<"master_b">>

PW1 == <<"pw_a">>

PW2 == <<"pw_b">>

TARGET == <<"1.1.1.1">>

FILE1 == <<"payload.bin">>

(***************************************************************************)
(* External-call events.                                                   *)
(***************************************************************************)
(* detail holds the call's arguments or the message's variable parts as a  *)
(* sequence of tokens, integers in the decimal form str() gives them.      *)
Ev(op, chat, host, kind, detail) ==
  [op |-> op, chat |-> chat, host |-> host, kind |-> kind, detail |-> detail]

send_message(chat_id, kind, detail) == Ev("send", chat_id, 0, kind, detail)

(***************************************************************************)
(* Config store.                                                           *)
(***************************************************************************)
(* Variant: the admin check lets every chat through. *)
is_admin_Everyone(chat_id) == TRUE

is_admin(chat_id) == \E i \in 1..Len(ADMIN_IDS) : ADMIN_IDS[i] = chat_id

Vps(ip, user, password, busy) ==
  [ip |-> ip, user |-> user, password |-> password, busy |-> busy]

JStr(s) == <<"str", s>>

JBool(b) == <<"lit", IF b THEN "true" ELSE "false">>

(* Variant: the dump leaves the busy key out. *)
json_dump_obj_NoBusy(d) ==
  [k \in DOMAIN d \ {"busy"} |-> JStr(d[k])]

(* json.dump of one host dict. *)
json_dump_obj(d) ==
  [k \in DOMAIN d |-> IF k = "busy" THEN JBool(d[k]) ELSE JStr(d[k])]

(* json.load of one JSON object. *)
json_load_obj(o) ==
  [k \in DOMAIN o |-> IF o[k][1] = "lit" THEN o[k][2] = "true" ELSE o[k][2]]

json_dump(list) == [i \in 1..Len(list) |-> json_dump_obj(list[i])]

json_load(text) == [i \in 1..Len(text) |-> json_load_obj(text[i])]

NoFile == [exists |-> FALSE, VPS_LIST |-> <<>>]

File(text) == [exists |-> TRUE, VPS_LIST |-> text]

default_config ==
  <<Vps(IP1, USER1, PW1, FALSE), Vps(IP2, USER2, PW2, FALSE)>>

(* generate_config_file: writes the default only when no file exists. *)
generate_config_file(d) ==
  IF ~d.exists THEN File(json_dump(default_config)) ELSE d

(* The loop that gives every loaded record a busy key. *)
BackfillBusy(d) ==
  IF "busy" \in DOMAIN d THEN d ELSE Vps(d.ip, d.user, d.password, FALSE)

LoadConfig(d) ==
  [i \in 1..Len(d.VPS_LIST) |-> BackfillBusy(json_load(d.VPS_LIST)[i])]

(* Variant: the write is skipped, the file stays as it was. *)
save_config_Skipped(list) == disk

save_config(list) == File(json_dump(list))

(* Config files the process may find at its first start. *)
InitialFiles ==
  { NoFile,
    File(<<[ip |-> JStr(IP1), user |-> JStr(USER1), password |-> JStr(PW1)]>>),
    File(<<[ip |-> JStr(IP1), user |-> JStr(USER1), password |-> JStr(PW1),
            busy |-> JBool(TRUE)],
           [ip |-> JStr(IP2), user |-> JStr(USER2), password |-> JStr(PW2)]>>) }

NoData == [step |-> "none", ip |-> <<>>]

(* A Python dict is a function on its keys. *)
EmptyDict == [k \in {} |-> 0]

(* No process of the reaction bot has been started. *)
NotStarted == [pc |-> "off", entry |-> "", version |-> <<>>, status |-> 0]

Init ==
  /\ running = FALSE
  /\ disk \in InitialFiles
  /\ VPS_LIST = <<>>
  /\ user_data = [c \in ChatIds |-> NoData]
  /\ workers = EmptyBag
  /\ local_files = {}
  /\ io = <<>>
  /\ offset = <<>>
  /\ updates = <<>>
  /\ environ = <<>>
  /\ process = NotStarted
  /\ active_tasks = EmptyDict
  /\ reaction_counts = EmptyDict
  /\ invocations = <<>>
  /\ reaction_tasks = EmptyBag
  /\ launched = 0

(* Module-level start-up code: generate, load, backfill, save. *)
Startup ==
  /\ ~running
  /\ LET file == generate_config_file(disk)
         loaded == LoadConfig(file)
     IN  /\ VPS_LIST' = loaded
         /\ disk' = save_config(loaded)
  /\ running' = TRUE
  /\ user_data' = [c \in ChatIds |-> NoData]
  /\ workers' = EmptyBag
  /\ io' = <<>>
  /\ offset' = <<>>
  /\ updates' = <<>>
  /\ UNCHANGED local_files
  /\ ReactionsBotIdle

(* The process is ended from outside (signal): memory and threads are     *)
(* gone, the config file and local files stay.                             *)
Stop ==
  /\ running
  /\ running' = FALSE
  /\ VPS_LIST' = <<>>
  /\ user_data' = [c \in ChatIds |-> NoData]
  /\ workers' = EmptyBag
  /\ io' = <<>>
  /\ offset' = <<>>
  /\ updates' = <<>>
  /\ UNCHANGED <<disk, local_files>>
  /\ ReactionsBotIdle

(***************************************************************************)
(* Helpers shared by the handlers.                                         *)
(***************************************************************************)
(* A step of the poll loop's thread that only makes external calls. *)
Reply(events) ==
  /\ io' = events
  /\ UNCHANGED <<running, disk, VPS_LIST, user_data, workers, local_files>>

(* Variant: the scan keeps the last record with that address. *)
find_vps_Last(ip) ==
  IF \E i \in 1..Len(VPS_LIST) : VPS_LIST[i].ip = ip
  THEN CHOOSE i \in 1..Len(VPS_LIST) :
         /\ VPS_LIST[i].ip = ip
         /\ \A j \in (i + 1)..Len(VPS_LIST) : VPS_LIST[j].ip # ip
  ELSE 0

(* Variant: the lookup falls back to the first record. *)
find_vps_Default(ip) ==
  IF \E i \in 1..Len(VPS_LIST) : VPS_LIST[i].ip = ip
  THEN CHOOSE i \in 1..Len(VPS_LIST) :
         /\ VPS_LIST[i].ip = ip
         /\ \A j \in 1..(i - 1) : VPS_LIST[j].ip # ip
  ELSE IF VPS_LIST # <<>> THEN 1 ELSE 0

(* Variant: the lookup passes over busy records. *)
find_vps_Free(ip) ==
  IF \E i \in 1..Len(VPS_LIST) : VPS_LIST[i].ip = ip /\ ~VPS_LIST[i].busy
  THEN CHOOSE i \in 1..Len(VPS_LIST) :
         /\ VPS_LIST[i].ip = ip /\ ~VPS_LIST[i].busy
         /\ \A j \in 1..(i - 1) : VPS_LIST[j].ip # ip \/ VPS_LIST[j].busy
  ELSE 0

(* next((vps for vps in VPS_LIST if vps["ip"] == ip), None): the index of  *)
(* the first record with that address, 0 for None.                         *)
find_vps(ip) ==
  IF \E i \in 1..Len(VPS_LIST) : VPS_LIST[i].ip = ip
  THEN CHOOSE i \in 1..Len(VPS_LIST) :
         /\ VPS_LIST[i].ip = ip
         /\ \A j \in 1..(i - 1) : VPS_LIST[j].ip # ip
  ELSE 0

Creds(i) == <<VPS_LIST[i].ip, VPS_LIST[i].user, VPS_LIST[i].password>>

(* What a remote session can do: connect raises, exec_command raises, or   *)
(* the command returns with stdout and stderr each empty or not.           *)
RemoteOutcomes ==
  {"connect_raise", "exec_raise", "silent", "stdout", "stderr", "both"}

HasStdout(r) == r \in {"stdout", "both"}

HasStderr(r) == r \in {"stderr", "both"}

(* connect, exec_command, read, close on host i. *)
Session(i, command_line, r) ==
  IF r = "connect_raise"
  THEN <<Ev("connect", 0, i, "raise", Creds(i))>>
  ELSE <<Ev("connect", 0, i, "ok", Creds(i)),
         Ev("exec", 0, i, r, command_line)>>

Raised(r) == r \in {"connect_raise", "exec_raise"}

(***************************************************************************)
(* Liveness prober.                                                        *)
(***************************************************************************)
(* Variant: a failed connection is reported as running. *)
StatusLine_AlwaysRunning(i, up) == VPS_LIST[i].ip \o <<"RUNNING">>

StatusLine(i, up) == VPS_LIST[i].ip \o <<IF up THEN "RUNNING" ELSE "DOWN">>

(* up[i] is TRUE when the connection to host i succeeds.  The result is    *)
(* the calls made and the report's lines.                                  *)
check_vps_status(up) ==
  LET n == Len(VPS_LIST)
      status_list == [i \in 1..n |-> StatusLine(i, up[i])]
      hosts == [i \in 1..n |-> i]
      failed == SelectSeq(hosts, LAMBDA i : ~up[i])
      failed_vps_list == [k \in 1..Len(failed) |-> VPS_LIST[failed[k]].ip]
      connects == [i \in 1..n |->
                     Ev("connect", 0, i, IF up[i] THEN "ok" ELSE "raise", Creds(i))]
      alerts == IF failed_vps_list # <<>>
                THEN [a \in 1..Len(ADMIN_IDS) |->
                        send_message(ADMIN_IDS[a], "alert", failed_vps_list)]
                ELSE <<>>
  IN  [calls |-> connects \o alerts, report |-> status_list]

handle_cvps(chat_id) ==
  \E up \in [1..Len(VPS_LIST) -> BOOLEAN] :
    LET res == check_vps_status(up)
    IN  Reply(<<send_message(chat_id, "checking", <<>>)>> \o res.calls
              \o <<send_message(chat_id, "status", res.report)>>)

(***************************************************************************)
(* Attack dispatch.                                                        *)
(***************************************************************************)
(* Variant: the busy filter is dropped. *)
get_available_vps_All == [i \in 1..Len(VPS_LIST) |-> i]

(* The indices of the records that are not busy, in list order; the empty  *)
(* sequence stands for None.                                               *)
get_available_vps ==
  SelectSeq([i \in 1..Len(VPS_LIST) |-> i], LAMBDA i : ~VPS_LIST[i].busy)

(* Variant: the thread gets the default duration and thread count. *)
Worker_DefaultArgs(i, target, port, duration, threads, chat_id) ==
  [vps |-> i, pc |-> "connect", error |-> FALSE, target |-> target,
   port |-> port, duration |-> DEFAULT_TIME_DURATION,
   threads |-> DEFAULT_THREADS, chat_id |-> chat_id]

Worker(i, target, port, duration, threads, chat_id) ==
  [vps |-> i, pc |-> "connect", error |-> FALSE, target |-> target,
   port |-> port, duration |-> duration, threads |-> threads,
   chat_id |-> chat_id]

(* Variant: the thread count is not parsed. *)
AllParsed_SkipsThreads(port, time_duration, threads) ==
  port.ok /\ time_duration.ok

(* The try block around the three int() calls: no ValueError. *)
AllParsed(port, time_duration, threads) ==
  port.ok /\ time_duration.ok /\ threads.ok

(* Variant: the duration limit is off by one. *)
TooLong_OffByOne(time_duration) == time_duration > MAX_TIME_DURATION + 1

TooLong(time_duration) == time_duration > MAX_TIME_DURATION

(* Variant: a thread count below one is refused as well. *)
TooMany_OrNone(threads) == threads > MAX_THREADS \/ threads < 1

TooMany(threads) == threads > MAX_THREADS

handle_attack(chat_id, command) ==
  IF ~is_admin(chat_id)
  THEN Reply(<<send_message(chat_id, "restricted", <<>>)>>)
  ELSE IF Len(command) < 3 \/ Len(command) > 5
  THEN Reply(<<send_message(chat_id, "usage_attack", <<>>)>>)
  ELSE
    LET target == command[2]
        port == ParseInt(command[3])
        time_duration == ParseInt(IF Len(command) > 3 THEN command[4]
                                  ELSE IntStr(DEFAULT_TIME_DURATION))
        threads == ParseInt(IF Len(command) > 4 THEN command[5]
                            ELSE IntStr(DEFAULT_THREADS))
    IN
      IF ~AllParsed(port, time_duration, threads)
      THEN Reply(<<send_message(chat_id, "must_be_integers", <<>>)>>)
      ELSE IF TooLong(time_duration.val)
      THEN Reply(<<send_message(chat_id, "max_duration", <<>>)>>)
      ELSE IF TooMany(threads.val)
      THEN Reply(<<send_message(chat_id, "max_threads", <<>>)>>)
      ELSE
        LET available_vps == get_available_vps
            n == Len(available_vps)
            args == <<target, IntStr(port.val), IntStr(time_duration.val),
                      IntStr(threads.val)>>
        IN
          IF available_vps = <<>>
          THEN Reply(<<send_message(chat_id, "all_busy", <<>>)>>)
          ELSE
            /\ BagCardinality(workers) + n <= MaxWorkers
            /\ VPS_LIST' =
                 [i \in 1..Len(VPS_LIST) |->
                    IF \E k \in 1..n : available_vps[k] = i
                    THEN [VPS_LIST[i] EXCEPT !.busy = TRUE]
                    ELSE VPS_LIST[i]]
            /\ workers' = workers (+)
                 SetToBag({Worker(available_vps[k], target, port.val,
                                  time_duration.val, threads.val, chat_id) :
                           k \in 1..n})
            /\ io' =
                 [j \in 1..(2 * n) |->
                    IF j % 2 = 1
                    THEN send_message(chat_id, "attack_started",
                           <<VPS_LIST[available_vps[(j + 1) \div 2]].ip>>)
                    ELSE Ev("thread_start", chat_id, available_vps[j \div 2],
                            "execute_attack", args)]
            /\ UNCHANGED <<running, disk, user_data, local_files>>

(***************************************************************************)
(* Attack workers (one thread per selected host).                          *)
(***************************************************************************)
(* Variant: the flag is written on every record. *)
SetBusy_All(i, b) ==
  [k \in 1..Len(VPS_LIST) |-> [VPS_LIST[k] EXCEPT !.busy = b]]

SetBusy(i, b) == [VPS_LIST EXCEPT ![i].busy = b]

AttackCommand(w) ==
  <<<<"./soulcrack">>, w.target, IntStr(w.port), IntStr(w.duration),
    IntStr(w.threads)>>

Threads == BagToSet(workers)

(* Thread w ends. *)
Exit(w) == workers (-) SetToBag({w})

(* Thread w goes on as w2. *)
Goto(w, w2) == (workers (-) SetToBag({w})) (+) SetToBag({w2})

WorkerFrame ==
  /\ UNCHANGED <<running, disk, user_data, local_files, offset, updates>>
  /\ ReactionsBotIdle

(* Variant: the except block does not free the host. *)
WorkerConnect_KeepsBusy(w) ==
  /\ w.pc = "connect"
  /\ \E ok \in BOOLEAN :
       /\ workers' = Goto(w, [w EXCEPT !.pc = IF ok THEN "exec" ELSE "send_error"])
       /\ io' = <<Ev("connect", 0, w.vps, IF ok THEN "ok" ELSE "raise",
                     Creds(w.vps))>>
       /\ UNCHANGED VPS_LIST
  /\ WorkerFrame

(* ssh.connect: returns, or raises into the except block, which frees the  *)
(* host before it reports.                                                 *)
WorkerConnect(w) ==
  /\ w.pc = "connect"
  /\ \E ok \in BOOLEAN :
       IF ok
       THEN /\ workers' = Goto(w, [w EXCEPT !.pc = "exec"])
            /\ io' = <<Ev("connect", 0, w.vps, "ok", Creds(w.vps))>>
            /\ UNCHANGED VPS_LIST
       ELSE /\ workers' = Goto(w, [w EXCEPT !.pc = "send_error"])
            /\ io' = <<Ev("connect", 0, w.vps, "raise", Creds(w.vps))>>
            /\ VPS_LIST' = SetBusy(w.vps, FALSE)
  /\ WorkerFrame

(* Variant: the host is not freed after the command. *)
WorkerExec_KeepsBusy(w) ==
  /\ w.pc = "exec"
  /\ \E r \in {"exec_raise", "silent", "stderr"} :
       /\ io' = <<Ev("exec", 0, w.vps, r, AttackCommand(w))>>
       /\ UNCHANGED VPS_LIST
       /\ workers' =
            IF r = "exec_raise"
            THEN Goto(w, [w EXCEPT !.pc = "send_error"])
            ELSE Goto(w, [w EXCEPT !.pc = "send_result",
                                   !.error = HasStderr(r)])
  /\ WorkerFrame

(* exec_command and the reads: return with or without stderr, then close   *)
(* and free the host; or raise into the except block, which frees it.      *)
WorkerExec(w) ==
  /\ w.pc = "exec"
  /\ \E r \in {"exec_raise", "silent", "stderr"} :
       /\ io' = <<Ev("exec", 0, w.vps, r, AttackCommand(w))>>
       /\ VPS_LIST' = SetBusy(w.vps, FALSE)
       /\ workers' =
            IF r = "exec_raise"
            THEN Goto(w, [w EXCEPT !.pc = "send_error"])
            ELSE Goto(w, [w EXCEPT !.pc = "send_result",
                                   !.error = HasStderr(r)])
  /\ WorkerFrame

(* The report inside the try block; when send_message raises, the except   *)
(* block frees the host again and reports the error.                       *)
WorkerSendResult(w) ==
  /\ w.pc = "send_result"
  /\ \E sent \in BOOLEAN :
       LET kind == IF w.error THEN "attack_failed" ELSE "attack_completed"
       IN  IF sent
           THEN /\ io' = <<send_message(w.chat_id, kind, <<VPS_LIST[w.vps].ip>>)>>
                /\ workers' = Exit(w)
                /\ UNCHANGED VPS_LIST
           ELSE /\ io' = <<Ev("send_raise", w.chat_id, 0, kind,
                              <<VPS_LIST[w.vps].ip>>)>>
                /\ workers' = Goto(w, [w EXCEPT !.pc = "send_error"])
                /\ VPS_LIST' = SetBusy(w.vps, FALSE)
  /\ WorkerFrame

(* The report of the except block; when it raises the thread dies. *)
WorkerSendError(w) ==
  /\ w.pc = "send_error"
  /\ \E sent \in BOOLEAN :
       io' = <<Ev(IF sent THEN "send" ELSE "send_raise", w.chat_id, 0,
                  "attack_error", <<>>)>>
  /\ workers' = Exit(w)
  /\ UNCHANGED VPS_LIST
  /\ WorkerFrame

(* The next step of live thread w, whichever it is. *)
WorkerStep(w) ==
  /\ w \in BagToSet(workers)
  /\ \/ WorkerConnect(w)
     \/ WorkerExec(w)
     \/ WorkerSendResult(w)
     \/ WorkerSendError(w)

(***************************************************************************)
(* Host registration and remote commands.                                  *)
(***************************************************************************)
(* Variant: a record with the same address is replaced in place. *)
handle_avps_Upsert(chat_id, command) ==
  IF ~is_admin(chat_id)
  THEN Reply(<<send_message(chat_id, "restricted", <<>>)>>)
  ELSE IF Len(command) # 4
  THEN Reply(<<send_message(chat_id, "usage_avps", <<>>)>>)
  ELSE
    LET ip == command[2]
        user == command[3]
        password == command[4]
        at == find_vps(ip)
        list == IF at = 0
                THEN Append(VPS_LIST, Vps(ip, user, password, FALSE))
                ELSE [VPS_LIST EXCEPT ![at] = Vps(ip, user, password, FALSE)]
    IN  /\ Len(VPS_LIST) < MaxHosts
        /\ VPS_LIST' = list
        /\ disk' = save_config(list)
        /\ io' = <<Ev("save", 0, 0, "config", <<>>),
                   send_message(chat_id, "vps_added", <<ip>>)>>
        /\ UNCHANGED <<running, user_data, workers, local_files>>

handle_avps(chat_id, command) ==
  IF ~is_admin(chat_id)
  THEN Reply(<<send_message(chat_id, "restricted", <<>>)>>)
  ELSE IF Len(command) # 4
  THEN Reply(<<send_message(chat_id, "usage_avps", <<>>)>>)
  ELSE
    LET ip == command[2]
        user == command[3]
        password == command[4]
        list == Append(VPS_LIST, Vps(ip, user, password, FALSE))
    IN  /\ Len(VPS_LIST) < MaxHosts
        /\ VPS_LIST' = list
        /\ disk' = save_config(list)
        /\ io' = <<Ev("save", 0, 0, "config", <<>>),
                   send_message(chat_id, "vps_added", <<ip>>)>>
        /\ UNCHANGED <<running, user_data, workers, local_files>>

handle_ls(chat_id, command) ==
  IF ~is_admin(chat_id)
  THEN Reply(<<send_message(chat_id, "restricted", <<>>)>>)
  ELSE IF Len(command) # 2
  THEN Reply(<<send_message(chat_id, "usage_ls", <<>>)>>)
  ELSE
    LET ip == command[2]
        vps == find_vps(ip)
    IN  IF vps = 0
        THEN Reply(<<send_message(chat_id, "not_found", <<ip>>)>>)
        ELSE \E r \in RemoteOutcomes :
               Reply(Session(vps, <<<<"ls -p | grep -v /">>>>, r) \o
                     <<send_message(chat_id,
                         IF Raised(r) THEN "ls_exception"
                         ELSE IF HasStdout(r) THEN "ls_files"
                         ELSE "ls_no_files", <<ip>>)>>)

handle_delete(chat_id, command) ==
  IF ~is_admin(chat_id)
  THEN Reply(<<send_message(chat_id, "restricted", <<>>)>>)
  ELSE IF Len(command) # 3
  THEN Reply(<<send_message(chat_id, "usage_delete", <<>>)>>)
  ELSE
    LET ip == command[2]
        file_or_dir == command[3]
        vps == find_vps(ip)
    IN  IF vps = 0
        THEN Reply(<<send_message(chat_id, "not_found", <<ip>>)>>)
        ELSE \E r \in RemoteOutcomes :
               Reply(Session(vps, <<<<"rm -rf">>, file_or_dir>>, r) \o
                     <<send_message(chat_id,
                         IF Raised(r) THEN "delete_exception"
                         ELSE IF HasStderr(r) THEN "delete_error"
                         ELSE "delete_ok", <<ip>>)>>)

(* Variant: the remote command runs in a thread of its own and the        *)
(* handler returns at once.                                                *)
handle_terminal_Threaded(chat_id, command) ==
  IF ~is_admin(chat_id)
  THEN Reply(<<send_message(chat_id, "restricted", <<>>)>>)
  ELSE IF Len(command) < 3
  THEN Reply(<<send_message(chat_id, "usage_terminal", <<>>)>>)
  ELSE
    LET ip == command[2]
        terminal_command == SubSeq(command, 3, Len(command))
        vps == find_vps(ip)
    IN  IF vps = 0
        THEN Reply(<<send_message(chat_id, "not_found", <<ip>>)>>)
        ELSE Reply(<<Ev("thread_start", chat_id, vps, "execute_terminal",
                        terminal_command)>>)

(* command is the whole text; split(maxsplit=2) yields three parts exactly *)
(* when the text has at least three tokens, the third part being the rest. *)
handle_terminal(chat_id, command) ==
  IF ~is_admin(chat_id)
  THEN Reply(<<send_message(chat_id, "restricted", <<>>)>>)
  ELSE IF Len(command) < 3
  THEN Reply(<<send_message(chat_id, "usage_terminal", <<>>)>>)
  ELSE
    LET ip == command[2]
        terminal_command == SubSeq(command, 3, Len(command))
        vps == find_vps(ip)
    IN  IF vps = 0
        THEN Reply(<<send_message(chat_id, "not_found", <<ip>>)>>)
        ELSE \E r \in RemoteOutcomes :
               Reply(Session(vps, terminal_command, r) \o
                     <<send_message(chat_id,
                         IF Raised(r) THEN "terminal_exception"
                         ELSE IF HasStderr(r) THEN "terminal_error"
                         ELSE "terminal_output", <<ip>>)>>)

handle_chmod(chat_id, command) ==
  IF ~is_admin(chat_id)
  THEN Reply(<<send_message(chat_id, "restricted", <<>>)>>)
  ELSE IF Len(command) # 2
  THEN Reply(<<send_message(chat_id, "usage_chmod", <<>>)>>)
  ELSE
    LET ip == command[2]
        vps == find_vps(ip)
    IN  IF vps = 0
        THEN Reply(<<send_message(chat_id, "not_found", <<ip>>)>>)
        ELSE \E r \in RemoteOutcomes :
               Reply(Session(vps, <<<<"chmod +x *">>>>, r) \o
                     <<send_message(chat_id,
                         IF Raised(r) THEN "chmod_exception"
                         ELSE IF HasStderr(r) THEN "chmod_error"
                         ELSE "chmod_ok", <<ip>>)>>)

show_help(chat_id) == Reply(<<send_message(chat_id, "help", <<>>)>>)

(***************************************************************************)
(* File stage-and-upload conversation.                                     *)
(***************************************************************************)
(* Variant: /upload is open to every chat. *)
handle_upload_start_Open(chat_id) ==
  /\ user_data' = [user_data EXCEPT ![chat_id] =
                     [step |-> "upload_ip", ip |-> <<>>]]
  /\ io' = <<send_message(chat_id, "enter_ip", <<>>)>>
  /\ UNCHANGED <<running, disk, VPS_LIST, workers, local_files>>

handle_upload_start(chat_id) ==
  IF ~is_admin(chat_id)
  THEN Reply(<<send_message(chat_id, "restricted", <<>>)>>)
  ELSE /\ user_data' = [user_data EXCEPT ![chat_id] =
                          [step |-> "upload_ip", ip |-> <<>>]]
       /\ io' = <<send_message(chat_id, "enter_ip", <<>>)>>
       /\ UNCHANGED <<running, disk, VPS_LIST, workers, local_files>>

(* Variant: the address is taken without looking it up. *)
handle_upload_ip_SkipsLookup(chat_id, text) ==
  /\ user_data' = [user_data EXCEPT ![chat_id] =
                     [step |-> "upload_file",
                      ip |-> IF text = <<>> THEN <<>> ELSE text[1]]]
  /\ io' = <<send_message(chat_id, "upload_now", <<>>)>>
  /\ UNCHANGED <<running, disk, VPS_LIST, workers, local_files>>

(* text is the stripped message text; it names a host when it is exactly   *)
(* one token equal to a record's address.                                  *)
handle_upload_ip(chat_id, text) ==
  LET vps == IF Len(text) = 1 THEN find_vps(text[1]) ELSE 0
  IN  IF vps = 0
      THEN Reply(<<send_message(chat_id, "not_found", text)>>)
      ELSE /\ user_data' = [user_data EXCEPT ![chat_id] =
                              [step |-> "upload_file", ip |-> text[1]]]
           /\ io' = <<send_message(chat_id, "upload_now", <<>>)>>
           /\ UNCHANGED <<running, disk, VPS_LIST, workers, local_files>>

(* How far the body of the try block gets. *)
UploadOutcomes ==
  {"getFile_raise", "download_raise", "open_raise", "connect_raise",
   "sftp_raise", "put_raise", "remove_raise", "ok"}

UploadStage(r) ==
  CASE r = "getFile_raise" -> 1 [] r = "download_raise" -> 2
    [] r = "open_raise" -> 3 [] r = "connect_raise" -> 4
    [] r = "sftp_raise" -> 5 [] r = "put_raise" -> 6
    [] r = "remove_raise" -> 7 [] r = "ok" -> 8

(* The calls of the try block up to and including the one that raises. *)
UploadCalls(vps, file_name, r) ==
  LET st == UploadStage(r)
      call(n, op) == Ev(op, 0, IF n >= 4 /\ n <= 6 THEN vps ELSE 0,
                        IF st = n THEN "raise" ELSE "ok",
                        IF n = 4 THEN Creds(vps) ELSE <<file_name>>)
      all == <<call(1, "getFile"), call(2, "download"), call(3, "write_local"),
               call(4, "connect"), call(5, "open_sftp"), call(6, "sftp_put"),
               call(7, "remove_local")>>
  IN  SubSeq(all, 1, IF st > 7 THEN 7 ELSE st)

(* Variant: any pending entry passes the check. *)
upload_pending_Any(chat_id) == user_data[chat_id].step # "none"

(* chat_id in user_data and user_data[chat_id].get("step") == "upload_file" *)
upload_pending(chat_id) == user_data[chat_id].step = "upload_file"

(* Variant: the pending entry is deleted at the end of the try block, not  *)
(* in a finally block.                                                     *)
handle_file_upload_ClearsOnSuccess(chat_id, file_name) ==
  IF ~upload_pending(chat_id)
  THEN Reply(<<send_message(chat_id, "start_upload_first", <<>>)>>)
  ELSE
    LET ip == user_data[chat_id].ip
        vps == find_vps(ip)
    IN  IF vps = 0
        THEN Reply(<<send_message(chat_id, "not_found", <<ip>>)>>)
        ELSE \E r \in UploadOutcomes :
               /\ io' = UploadCalls(vps, file_name, r) \o
                        <<send_message(chat_id,
                            IF r = "ok" THEN "upload_ok" ELSE "upload_error",
                            <<ip>>)>>
               /\ local_files' =
                    IF UploadStage(r) <= 3 THEN local_files
                    ELSE IF r = "ok" THEN local_files \ {file_name}
                    ELSE local_files \cup {file_name}
               /\ user_data' = IF r = "ok"
                               THEN [user_data EXCEPT ![chat_id] = NoData]
                               ELSE user_data
               /\ UNCHANGED <<running, disk, VPS_LIST, workers>>

handle_file_upload(chat_id, file_name) ==
  IF ~upload_pending(chat_id)
  THEN Reply(<<send_message(chat_id, "start_upload_first", <<>>)>>)
  ELSE
    LET ip == user_data[chat_id].ip
        vps == find_vps(ip)
    IN  IF vps = 0
        THEN Reply(<<send_message(chat_id, "not_found", <<ip>>)>>)
        ELSE \E r \in UploadOutcomes :
               /\ io' = UploadCalls(vps, file_name, r) \o
                        <<send_message(chat_id,
                            IF r = "ok" THEN "upload_ok" ELSE "upload_error",
                            <<ip>>)>>
               /\ local_files' =
                    IF UploadStage(r) <= 3 THEN local_files
                    ELSE IF r = "ok" THEN local_files \ {file_name}
                    ELSE local_files \cup {file_name}
               /\ user_data' = [user_data EXCEPT ![chat_id] = NoData]
               /\ UNCHANGED <<running, disk, VPS_LIST, workers>>

(***************************************************************************)
(* Poll loop: the handling of one update.                                  *)
(***************************************************************************)
(* Variant: only the known keywords count as commands. *)
StartsWithSlash_Known(text) ==
  text # <<>> /\ text[1] \in
    {Cmd(k) : k \in {"start", "help", "attack", "cvps", "avps", "upload",
                     "ls", "delete", "terminal", "chmod"}}

StartsWithSlash(text) == text # <<>> /\ text[1][1] = "/"

(* The command keywords the dispatch of src/bot.py knows. *)
Keywords ==
  {"start", "help", "attack", "cvps", "avps", "upload", "ls", "delete",
   "terminal", "chmod"}

(* Variant: an unknown command gets no answer. *)
unknown_command_Silent(chat_id) == Reply(<<>>)

(* The last branch of the command dispatch. *)
unknown_command(chat_id) ==
  Reply(<<send_message(chat_id, "unknown_command", <<>>)>>)

(* The handling of one message of src/vps.py: no /start and /help branch,  *)
(* the same handlers.                                                      *)
vps_main(chat_id, text, document) ==
  IF StartsWithSlash(text)
  THEN LET command == text[1]
       IN  IF command = Cmd("attack") THEN handle_attack(chat_id, text)
           ELSE IF command = Cmd("cvps") THEN handle_cvps(chat_id)
           ELSE IF command = Cmd("avps") THEN handle_avps(chat_id, text)
           ELSE IF command = Cmd("upload") THEN handle_upload_start(chat_id)
           ELSE IF command = Cmd("ls") THEN handle_ls(chat_id, text)
           ELSE IF command = Cmd("delete") THEN handle_delete(chat_id, text)
           ELSE IF command = Cmd("terminal") THEN handle_terminal(chat_id, text)
           ELSE IF command = Cmd("chmod") THEN handle_chmod(chat_id, text)
           ELSE unknown_command(chat_id)
  ELSE IF document # <<>>
  THEN handle_file_upload(chat_id, document[1])
  ELSE IF user_data[chat_id].step = "upload_ip"
  THEN handle_upload_ip(chat_id, text)
  ELSE Reply(<<>>)

(* The handling of one message of src/bot.py.  A message carries a chat    *)
(* id, a text (empty when absent) and a document (<<>> when absent, else   *)
(* <<file_name>>).                                                         *)
main(chat_id, text, document) ==
  IF text = <<Cmd("start")>> \/ text = <<Cmd("help")>>
  THEN show_help(chat_id)
  ELSE IF StartsWithSlash(text)
  THEN LET command == text[1]
       IN  IF command = Cmd("attack") THEN handle_attack(chat_id, text)
           ELSE IF command = Cmd("cvps") THEN handle_cvps(chat_id)
           ELSE IF command = Cmd("avps") THEN handle_avps(chat_id, text)
           ELSE IF command = Cmd("upload") THEN handle_upload_start(chat_id)
           ELSE IF command = Cmd("ls") THEN handle_ls(chat_id, text)
           ELSE IF command = Cmd("delete") THEN handle_delete(chat_id, text)
           ELSE IF command = Cmd("terminal") THEN handle_terminal(chat_id, text)
           ELSE IF command = Cmd("chmod") THEN handle_chmod(chat_id, text)
           ELSE unknown_command(chat_id)
  ELSE IF document # <<>>
  THEN handle_file_upload(chat_id, document[1])
  ELSE IF user_data[chat_id].step = "upload_ip"
  THEN handle_upload_ip(chat_id, text)
  ELSE Reply(<<>>)

(***************************************************************************)
(* Inputs.                                                                 *)
(***************************************************************************)
T(word) == <<word>>

N240 == <<"2", "4", "0">>

N241 == <<"2", "4", "1">>

N5000 == <<"5", "0", "0", "0">>

N5001 == <<"5", "0", "0", "1">>

N80 == <<"8", "0">>

NotInt == <<"8", "x">>

DurationTokens == {N240, N241, NotInt}

ThreadTokens == {N5000, N5001, NotInt}

AttackTexts ==
  {<<Cmd("attack"), TARGET>>,
   <<Cmd("attack"), TARGET, N80>>,
   <<Cmd("attack"), TARGET, NotInt>>,
   <<Cmd("attack"), TARGET, N80, N240, N5000, T("extra")>>}
  \cup {<<Cmd("attack"), TARGET, N80, d>> : d \in DurationTokens}
  \cup {<<Cmd("attack"), TARGET, N80, N240, n>> : n \in ThreadTokens}
  \cup {<<Cmd("attack"), TARGET, x[1], x[2], x[3]>> :
          x \in {<<N80, N241, N5000>>, <<N80, N241, N5001>>,
                 <<NotInt, N241, N5000>>, <<N80, NotInt, N5001>>}}

HostTokens == {IP1, IP2, IP_UNKNOWN}

AvpsTexts ==
  {<<Cmd("avps"), IP1>>, <<Cmd("avps"), IP1, USER1, PW2>>,
   <<Cmd("avps"), IP3, USER2, PW2>>}

RemoteTexts ==
  UNION {{<<Cmd(c)>>, <<Cmd(c), IP1>>, <<Cmd(c), IP_UNKNOWN>>,
          <<Cmd(c), IP1, T("a")>>, <<Cmd(c), IP_UNKNOWN, T("a")>>,
          <<Cmd(c), IP1, T("a"), T("b")>>} :
         c \in {"ls", "delete", "terminal", "chmod"}}

OtherTexts ==
  {<<Cmd("start")>>, <<Cmd("help")>>, <<Cmd("start"), T("a")>>,
   <<Cmd("cvps")>>, <<Cmd("upload")>>, <<Cmd("status")>>,
   <<>>, <<IP1, IP1>>}
  \cup {<<ip>> : ip \in HostTokens}

Texts == AttackTexts \cup AvpsTexts \cup RemoteTexts \cup OtherTexts

(* What the chat outside the admin list sends: every command once, with    *)
(* valid arguments, and the two steps of the upload conversation.          *)
StrangerTexts ==
  {<<Cmd("attack"), TARGET, N80>>, <<Cmd("attack"), TARGET, N80, N241>>,
   <<Cmd("avps"), IP3, USER2, PW2>>, <<Cmd("upload")>>, <<Cmd("ls"), IP1>>,
   <<Cmd("delete"), IP1, T("a")>>, <<Cmd("terminal"), IP1, T("a")>>,
   <<Cmd("chmod"), IP1>>, <<Cmd("chmod")>>, <<Cmd("start")>>, <<Cmd("help")>>,
   <<Cmd("cvps")>>, <<Cmd("status")>>, <<IP1>>}

(* An update: its identifier, whether it carries a message, and the       *)
(* message's chat id, text and document.                                   *)
Update(update_id, message, chat_id, text, document) ==
  [update_id |-> update_id, message |-> message, chat_id |-> chat_id,
   text |-> text, document |-> document]

TextUpdate(chat_id, text) == Update(1, TRUE, chat_id, text, <<>>)

DocumentUpdate(chat_id, file_name) ==
  Update(1, TRUE, chat_id, <<>>, <<file_name>>)

(* The updates: a text message or a document message.  Spec, SpecOps and   *)
(* SpecVps handle one update per fetch and do not tell updates apart by    *)
(* identifier; SpecPoll does.                                              *)
Updates ==
  {TextUpdate(ADMIN, t) : t \in Texts}
  \cup {TextUpdate(STRANGER, t) : t \in StrangerTexts}
  \cup {DocumentUpdate(c, FILE1) : c \in ChatIds}

(* The updates that concern the attack fleet. *)
FleetUpdates ==
  {u \in Updates : u.text # <<>> /\ u.text[1] \in {Cmd("attack"), Cmd("avps")}}

(* Variant: the cursor is set to the identifier itself. *)
next_offset_Same(update) == <<update.update_id>>

(* offset = update["update_id"] + 1 *)
next_offset(update) == <<update.update_id + 1>>

(* The body of the for loop of src/bot.py for one update. *)
handle_update(update) ==
  /\ offset' = next_offset(update)
  /\ IF update.message
     THEN main(update.chat_id, update.text, update.document)
     ELSE Reply(<<>>)

(* The body of the for loop of src/vps.py for one update. *)
vps_handle_update(update) ==
  /\ offset' = next_offset(update)
  /\ IF update.message
     THEN vps_main(update.chat_id, update.text, update.document)
     ELSE Reply(<<>>)

(* Variant: the attack handler joins its threads, so the loop gets to the  *)
(* next update only when no worker is left.                                *)
Poll_JoinsWorkers(U) ==
  /\ running
  /\ updates = <<>>
  /\ workers = EmptyBag
  /\ \E u \in U : handle_update(u)
  /\ UNCHANGED updates
  /\ ReactionsBotIdle

(* One iteration of the poll loop whose fetch returns one update, one of   *)
(* U: the loop handles it and sleeps.                                      *)
Poll(U) ==
  /\ running
  /\ updates = <<>>
  /\ \E u \in U : handle_update(u)
  /\ UNCHANGED updates
  /\ ReactionsBotIdle

(* The same iteration of src/vps.py. *)
PollVps(U) ==
  /\ running
  /\ updates = <<>>
  /\ \E u \in U : vps_handle_update(u)
  /\ UNCHANGED updates
  /\ ReactionsBotIdle

(***************************************************************************)
(* Poll loop with its cursor: fetch a batch, handle its updates in order.  *)
(***************************************************************************)
(* The offset parameter of getUpdates as the request carries it. *)
Cursor(o) == IF o = <<>> THEN <<>> ELSE <<IntStr(o[1])>>

(* What the conversation of SpecPoll is made of. *)
PollMessages ==
  {TextUpdate(ADMIN, <<Cmd("upload")>>), TextUpdate(ADMIN, <<IP1>>),
   DocumentUpdate(ADMIN, FILE1), TextUpdate(STRANGER, <<Cmd("help")>>),
   TextUpdate(ADMIN, <<Cmd("terminal"), IP1, T("a")>>)}

(* An update without a message (an edited message, a channel post). *)
OtherUpdate == Update(1, FALSE, 0, <<>>, <<>>)

WithId(u, id) == [u EXCEPT !.update_id = id]

(* The batches the service may return for cursor o: at most MaxBatch       *)
(* updates, identifiers increasing and not below the cursor.  Without a    *)
(* cursor the service returns every unconfirmed update, whatever its       *)
(* identifier.                                                             *)
Batches(o) ==
  LET low == IF o = <<>> THEN 1 ELSE o[1]
      ids == low..MaxUpdateId
      content == PollMessages \cup {OtherUpdate}
      stamped == {WithId(u, i) : u \in content, i \in ids}
  IN  UNION {{b \in [1..n -> stamped] :
                \A k \in 1..(n - 1) : b[k].update_id < b[k + 1].update_id} :
             n \in 0..MaxBatch}

(* updates = get_updates(offset): the request raises (nothing catches it,  *)
(* the process ends), the answer has no "result" key, or it has a batch.   *)
FetchUpdates ==
  /\ running
  /\ updates = <<>>
  /\ \/ /\ io' = <<Ev("getUpdates", 0, 0, "raise", Cursor(offset))>>
        /\ running' = FALSE
        /\ VPS_LIST' = <<>>
        /\ user_data' = [c \in ChatIds |-> NoData]
        /\ workers' = EmptyBag
        /\ offset' = <<>>
        /\ updates' = <<>>
        /\ UNCHANGED <<disk, local_files>>
     \/ /\ io' = <<Ev("getUpdates", 0, 0, "no_result", Cursor(offset))>>
        /\ UNCHANGED <<running, disk, VPS_LIST, user_data, workers,
                       local_files, offset, updates>>
     \/ /\ io' = <<Ev("getUpdates", 0, 0, "ok", Cursor(offset))>>
        /\ updates' \in Batches(offset)
        /\ UNCHANGED <<running, disk, VPS_LIST, user_data, workers,
                       local_files, offset>>
  /\ ReactionsBotIdle

(* The for loop takes the next update of the batch. *)
HandleUpdate ==
  /\ running
  /\ updates # <<>>
  /\ handle_update(Head(updates))
  /\ updates' = Tail(updates)
  /\ ReactionsBotIdle

Next ==
  \/ Startup
  \/ Stop
  \/ Poll(FleetUpdates)
  \/ \E w \in Threads : WorkerConnect(w)
  \/ \E w \in Threads : WorkerExec(w)
  \/ \E w \in Threads : WorkerSendResult(w)
  \/ \E w \in Threads : WorkerSendError(w)

(* The updates that start no attack: every update but a well-formed       *)
(* /attack of the admin.                                                   *)
OpsUpdates ==
  {u \in Updates :
     ~(/\ u.chat_id = ADMIN
       /\ u.text # <<>>
       /\ u.text[1] = Cmd("attack")
       /\ Len(u.text) \in 3..5)}

(* The dispatcher without attacks: probe, remote commands, registration    *)
(* and the upload conversation.                                            *)
NextOps ==
  \/ Startup
  \/ Stop
  \/ Poll(OpsUpdates)

(* The process is not ended from outside; the admin dispatches attacks    *)
(* with the default duration and thread count and registers a host.        *)
FairUpdates ==
  {TextUpdate(ADMIN, t) :
     t \in {<<Cmd("attack"), TARGET, N80>>, <<Cmd("avps"), IP3, USER2, PW2>>}}

(* The thread records that these dispatches can lead to. *)
WorkerRecords ==
  {[Worker(i, TARGET, 80, DEFAULT_TIME_DURATION, DEFAULT_THREADS, ADMIN)
      EXCEPT !.pc = pc, !.error = err] :
     i \in 1..MaxHosts,
     pc \in {"connect", "exec", "send_result", "send_error"},
     err \in BOOLEAN}

NextFair ==
  \/ Startup
  \/ Poll(FairUpdates)
  \/ \E w \in Threads : WorkerConnect(w)
  \/ \E w \in Threads : WorkerExec(w)
  \/ \E w \in Threads : WorkerSendResult(w)
  \/ \E w \in Threads : WorkerSendError(w)

N0 == <<"0">>

NMinus1 == <<"-", "1">>

PortNumbers == {N0, NMinus1, N80, NotInt}

DurationNumbers == {N0, NMinus1, N240, N241, NotInt}

ThreadNumbers == {N0, NMinus1, N5000, N5001, NotInt}

(* The admin's /attack messages of three to five tokens over the number    *)
(* tokens: zero, negative, at each limit, one above it, and not a number.  *)
ValidationTexts ==
  {<<Cmd("attack"), TARGET, p>> : p \in PortNumbers}
  \cup {<<Cmd("attack"), TARGET, x[1], x[2]>> :
          x \in {N0, NotInt} \X DurationNumbers}
  \cup {<<Cmd("attack"), TARGET, N80, x[1], x[2]>> :
          x \in DurationNumbers \X ThreadNumbers}
  \cup {<<Cmd("attack"), TARGET, NotInt, N240, N5000>>}

ValidationUpdates == {TextUpdate(ADMIN, t) : t \in ValidationTexts}

(* The dispatcher fed with /attack messages only; no thread is scheduled. *)
NextValidate ==
  \/ Startup
  \/ Stop
  \/ Poll(ValidationUpdates)

(* The dispatcher of src/vps.py without attacks. *)
NextVps ==
  \/ Startup
  \/ Stop
  \/ PollVps(OpsUpdates)

(* The poll loop of src/bot.py, batch by batch. *)
NextPoll ==
  \/ Startup
  \/ Stop
  \/ FetchUpdates
  \/ HandleUpdate

Spec == Init /\ [][Next]_vars

SpecOps == Init /\ [][NextOps]_vars

SpecValidate == Init /\ [][NextValidate]_vars

(* Every thread that can take a step eventually takes one: each call it    *)
(* makes returns or raises, and the scheduler runs every live thread.      *)
SpecFair ==
  /\ Init
  /\ [][NextFair]_vars
  /\ \A w \in WorkerRecords : WF_vars(WorkerStep(w))

SpecVps == Init /\ [][NextVps]_vars

SpecPoll == Init /\ [][NextPoll]_vars

(***************************************************************************)
(* The reaction bot that src/test_bot.py exercises: the handler            *)
(* react_command and its helper set_reactions_parallel.  Here io is the    *)
(* trace of calls on the bot and on the command message.                   *)
(***************************************************************************)
Emojis == {"thumbs_up", "fire", "joy"}

(* context.args: up to MaxEmojis emoji, in the order typed. *)
EmojiArgs == UNION {[1..n -> Emojis] : n \in 0..MaxEmojis}

ReactChatIds == {123, 321}

MessageIds == {456, 654}

RepliedIds == {777}

(* update.message: reply_to_message is <<>> for None, else <<its id>>. *)
ReactMessages ==
  [chat_id : ReactChatIds, message_id : MessageIds,
   reply_to_message : {<<>>} \cup {<<m>> : m \in RepliedIds}]

Call(op, chat_id, message_id, payload) ==
  [op |-> op, chat_id |-> chat_id, message_id |-> message_id,
   payload |-> payload]

ReactionTypeEmoji(emoji) == [type |-> "emoji", emoji |-> emoji]

(* message.reply_text(text) on the command message. *)
reply_text(message, text) ==
  Call("reply_text", message.chat_id, message.message_id, <<text>>)

(* Variant: one call per emoji. *)
set_reactions_parallel_PerEmoji(chat_id, message_id, emojis) ==
  [k \in 1..Len(emojis) |->
     Call("set_message_reaction", chat_id, message_id,
          <<ReactionTypeEmoji(emojis[k])>>)]

(* The calls the helper makes on the bot. *)
set_reactions_parallel(chat_id, message_id, emojis) ==
  <<Call("set_message_reaction", chat_id, message_id,
         [k \in 1..Len(emojis) |-> ReactionTypeEmoji(emojis[k])])>>

ReactFrame == FleetIdle /\ ReactionsBotIdle

(* Variant: the reply check is skipped. *)
react_command_NoReplyCheck(message, args) ==
  /\ IF args = <<>>
     THEN io' = <<reply_text(message, "Provide emojis")>>
     ELSE io' = set_reactions_parallel(message.chat_id, message.message_id,
                                       args)
                \o <<reply_text(message, "Reactions added")>>
  /\ ReactFrame

(* Variant: the confirmation is sent before the reactions are set. *)
react_command_ConfirmsFirst(message, args) ==
  /\ IF message.reply_to_message = <<>>
     THEN io' = <<reply_text(message, "Please reply to a message")>>
     ELSE IF args = <<>>
     THEN io' = <<reply_text(message, "Provide emojis")>>
     ELSE io' = <<reply_text(message, "Reactions added")>>
                \o set_reactions_parallel(message.chat_id,
                                          message.reply_to_message[1], args)
  /\ ReactFrame

(* The handler of /react.  The message the reactions go to is the replied  *)
(* message or the command message.                                         *)
react_command(message, args) ==
  /\ IF message.reply_to_message = <<>>
     THEN io' = <<reply_text(message, "Please reply to a message")>>
     ELSE IF args = <<>>
     THEN io' = <<reply_text(message, "Provide emojis")>>
     ELSE \E target \in {message.reply_to_message[1], message.message_id} :
            io' = set_reactions_parallel(message.chat_id, target, args)
                  \o <<reply_text(message, "Reactions added")>>
  /\ ReactFrame

(* A /react command arrives. *)
ReactCommand ==
  \E message \in ReactMessages, args \in EmojiArgs :
    react_command(message, args)

(* The helper is called on its own. *)
SetReactions ==
  \E chat_id \in ReactChatIds, message_id \in MessageIds \cup RepliedIds,
     emojis \in EmojiArgs :
    /\ io' = set_reactions_parallel(chat_id, message_id, emojis)
    /\ ReactFrame

NextReact ==
  \/ ReactCommand
  \/ SetReactions

SpecReact == Init /\ [][NextReact]_vars

(***************************************************************************)
(* The parallel-reactions bot: start-up (src/run_bot.py, src/bot_config.py *)
(* and the module-level code of src/parallel_reactions_bot.py).  Here io   *)
(* is the trace of what the last step printed or sent.                     *)
(***************************************************************************)
(* os.environ's TELEGRAM_BOT_TOKEN: <<>> when unset, else <<value>>. *)
TokenValues == {<<>>, <<"">>, <<"123456:abcdef">>}

(* not token: None or the empty string. *)
Falsy(token) == token = <<>> \/ token = <<"">>

Entries == {"run_bot.py", "parallel_reactions_bot.py", "bot_config.py"}

(* sys.version_info[:2] of the interpreter. *)
Versions == {<<3, 7>>, <<3, 8>>}

VersionLess(a, b) == a[1] < b[1] \/ (a[1] = b[1] /\ a[2] < b[2])

BOT_CONFIG ==
  [max_concurrent_tasks |-> 50, task_timeout |-> 30, reaction_cooldown |-> 1]

Out(text) == [op |-> "print", user |-> 0, text |-> text, count |-> 0]

Exited(status) == [process EXCEPT !.pc = "exited", !.status = status]

(* get_bot_token(): the token, or ValueError. *)
get_bot_token ==
  IF Falsy(environ) THEN [raises |-> TRUE, token |-> <<>>]
  ELSE [raises |-> FALSE, token |-> environ]

(* validate_config(): the try block raises ValueError (no token) or       *)
(* AssertionError, or reaches return True; the except block returns False. *)
validate_config ==
  LET try == IF get_bot_token.raises THEN "ValueError"
             ELSE IF /\ BOT_CONFIG.max_concurrent_tasks > 0
                     /\ BOT_CONFIG.task_timeout > 0
                     /\ BOT_CONFIG.reaction_cooldown >= 0
                  THEN "True" ELSE "AssertionError"
  IN  IF try = "True" THEN "True" ELSE "False"

(* check_environment(): version, token, configuration. *)
check_environment ==
  IF VersionLess(process.version, <<3, 8>>) THEN "False"
  ELSE IF get_bot_token.raises THEN "False"
  ELSE IF validate_config = "False" THEN "False"
  ELSE "True"

(* Variant: the module-level token check is missing. *)
ImportRaises_Never(entry) == FALSE

(* The imports of the entry script run the module-level code of            *)
(* parallel_reactions_bot, which raises ValueError when BOT_TOKEN is       *)
(* falsy; bot_config has no module-level check.                            *)
ImportRaises(entry) ==
  entry \in {"run_bot.py", "parallel_reactions_bot.py"} /\ Falsy(environ')

(* The interpreter starts one of the entry scripts E and runs its imports. *)
Launch(E) ==
  /\ process.pc = "off"
  /\ \E entry \in E, version \in Versions, token \in TokenValues :
       /\ environ' = token
       /\ IF ImportRaises(entry)
          THEN /\ process' = [pc |-> "exited", entry |-> entry,
                              version |-> version, status |-> 1]
               /\ io' = <<Out("ValueError")>>
          ELSE /\ process' = [pc |-> "imported", entry |-> entry,
                              version |-> version, status |-> 0]
               /\ io' = <<>>
  /\ UNCHANGED <<active_tasks, reaction_counts, invocations, reaction_tasks,
                 launched>>
  /\ FleetIdle

(* main() of parallel_reactions_bot: return when BOT_TOKEN is falsy, else  *)
(* build the application and poll.                                         *)
run_bot ==
  IF Falsy(environ)
  THEN /\ process' = Exited(0)
       /\ io' = <<Out("token required")>>
  ELSE /\ process' = [process EXCEPT !.pc = "polling"]
       /\ io' = <<Out("Starting Parallel Reactions Bot")>>

(* The __main__ block of the entry script. *)
RunMain ==
  /\ process.pc = "imported"
  /\ IF process.entry = "run_bot.py"
     THEN IF check_environment = "True"
          THEN run_bot
          ELSE /\ process' = Exited(1)
               /\ io' = <<Out("check failed")>>
     ELSE IF process.entry = "parallel_reactions_bot.py"
     THEN run_bot
     ELSE /\ process' = Exited(0)
          /\ io' = <<Out(IF validate_config = "True"
                         THEN "Configuration is valid"
                         ELSE "Configuration validation failed")>>
  /\ UNCHANGED <<environ, active_tasks, reaction_counts, invocations,
                 reaction_tasks, launched>>
  /\ FleetIdle

(***************************************************************************)
(* The parallel-reactions bot: /parallel and /stop.  Handlers and tasks    *)
(* are coroutines of one event loop: a step runs one of them from one      *)
(* await to the next.  The five tasks of an invocation are kept as a bag   *)
(* of task states; active_tasks[user] holds task identities <<d, i>>.      *)
(***************************************************************************)
UserIds == {11, 22}

(* range(5) *)
TASKS == 5

TaskSet(d) == {<<d, i>> : i \in 1..TASKS}

Say(user, text, count) ==
  [op |-> "reply_text", user |-> user, text |-> text, count |-> count]

SayRaises(user, text, count) ==
  [op |-> "reply_text_raise", user |-> user, text |-> text, count |-> count]

(* The bag b with every copy of state from turned into state to. *)
Retag(b, from, to) ==
  LET n == CopiesIn(from, b)
      rest == [x \in BagToSet(b) \ {from} |-> b[x]]
  IN  IF n = 0 THEN b ELSE rest (+) [x \in {to} |-> n]

(* The bag b with one copy of state from turned into state to. *)
RetagOne(b, from, to) == (b (-) SetToBag({from})) (+) SetToBag({to})

(* del d[k] *)
Del(d, k) == [x \in DOMAIN d \ {k} |-> d[x]]

(* d[k] = v *)
Put(d, k, v) == [x \in DOMAIN d \cup {k} |-> IF x = k THEN v ELSE d[x]]

DemoFrame ==
  /\ UNCHANGED <<environ, process, reaction_counts, reaction_tasks, launched>>
  /\ FleetIdle

(* parallel_demo_command up to its first await: five tasks are created and *)
(* added to the user's set, the announcement is on its way.                *)
ParallelDemo ==
  /\ process.pc = "polling"
  /\ Len(invocations) < MaxDemos
  /\ \E user_id \in UserIds :
       LET d == Len(invocations) + 1
           tracked == IF user_id \in DOMAIN active_tasks
                      THEN active_tasks[user_id] ELSE {}
       IN  /\ invocations' =
                Append(invocations,
                       [user |-> user_id, pc |-> "announce",
                        tasks |-> [x \in {"pending"} |-> TASKS],
                        success_count |-> <<>>])
           /\ active_tasks' = Put(active_tasks, user_id, tracked \cup TaskSet(d))
  /\ io' = <<>>
  /\ DemoFrame

(* The announcement returns and the handler awaits gather, or it raises    *)
(* and the exception leaves the handler.                                   *)
Announce ==
  /\ \E d \in 1..Len(invocations) :
       /\ invocations[d].pc = "announce"
       /\ \E sent \in BOOLEAN :
            /\ invocations' =
                 [invocations EXCEPT ![d].pc = IF sent THEN "gather" ELSE "failed"]
            /\ io' = <<IF sent
                       THEN Say(invocations[d].user, "Starting 5 parallel tasks", 0)
                       ELSE SayRaises(invocations[d].user,
                                      "Starting 5 parallel tasks", 0)>>
  /\ UNCHANGED active_tasks
  /\ DemoFrame

(* _parallel_task: the sleep and the report return, or the report raises   *)
(* and the except block re-raises.                                         *)
ParallelTask ==
  /\ \E d \in 1..Len(invocations) :
       /\ BagIn("pending", invocations[d].tasks)
       /\ \E sent \in BOOLEAN :
            /\ invocations' =
                 [invocations EXCEPT ![d].tasks =
                    RetagOne(@, "pending", IF sent THEN "done" ELSE "raised")]
            /\ io' = <<IF sent THEN Say(invocations[d].user, "Task finished", 0)
                       ELSE SayRaises(invocations[d].user, "Task finished", 0)>>
  /\ UNCHANGED active_tasks
  /\ DemoFrame

(* isinstance(CancelledError(), Exception): true before Python 3.8. *)
CancelledIsException == VersionLess(process.version, <<3, 8>>)

(* sum(1 for result in results if not isinstance(result, Exception)) *)
success_count(tasks) ==
  CopiesIn("done", tasks)
  + (IF CancelledIsException THEN 0 ELSE CopiesIn("cancelled", tasks))

(* The clean-up after gather: discard the invocation's tasks, delete the   *)
(* user's entry when it is empty.                                          *)
Cleanup(d) ==
  LET user_id == invocations[d].user
  IN  IF user_id \in DOMAIN active_tasks
      THEN LET left == active_tasks[user_id] \ TaskSet(d)
           IN  IF left = {} THEN Del(active_tasks, user_id)
               ELSE Put(active_tasks, user_id, left)
      ELSE active_tasks

(* gather returns when every task is done: clean-up, count, report; when   *)
(* the report raises the except block sends the error text, which may      *)
(* raise as well.                                                          *)
Gathered ==
  /\ \E d \in 1..Len(invocations) :
       /\ invocations[d].pc = "gather"
       /\ ~BagIn("pending", invocations[d].tasks)
       /\ active_tasks' = Cleanup(d)
       /\ LET n == success_count(invocations[d].tasks)
              user_id == invocations[d].user
          IN  \E r \in {"sent", "error_sent", "error_raised"} :
                /\ invocations' =
                     [invocations EXCEPT
                        ![d].pc = IF r = "error_raised" THEN "failed"
                                  ELSE "returned",
                        ![d].success_count = <<n>>]
                /\ io' =
                     IF r = "sent"
                     THEN <<Say(user_id, "Successfully completed", n)>>
                     ELSE <<SayRaises(user_id, "Successfully completed", n),
                            IF r = "error_sent"
                            THEN Say(user_id, "Error in parallel processing", 0)
                            ELSE SayRaises(user_id,
                                           "Error in parallel processing", 0)>>
  /\ DemoFrame

(* Variant: the tasks are cancelled but the entry is kept. *)
stop_command_KeepsEntry(user_id) ==
  IF user_id \in DOMAIN active_tasks
  THEN /\ invocations' =
            [d \in 1..Len(invocations) |->
               IF TaskSet(d) \cap active_tasks[user_id] # {}
               THEN [invocations[d] EXCEPT
                       !.tasks = Retag(@, "pending", "cancelled")]
               ELSE invocations[d]]
       /\ UNCHANGED active_tasks
       /\ \E sent \in BOOLEAN :
            io' = <<IF sent
                   THEN Say(user_id, "Stopped", Cardinality(active_tasks[user_id]))
                   ELSE SayRaises(user_id, "Stopped",
                                  Cardinality(active_tasks[user_id]))>>
  ELSE /\ UNCHANGED <<invocations, active_tasks>>
       /\ \E sent \in BOOLEAN :
            io' = <<IF sent THEN Say(user_id, "No active tasks to stop", 0)
                   ELSE SayRaises(user_id, "No active tasks to stop", 0)>>

(* stop_command: cancel the user's tracked tasks that are not done, count  *)
(* the tracked tasks, delete the entry, report.                            *)
stop_command(user_id) ==
  IF user_id \in DOMAIN active_tasks
  THEN /\ invocations' =
            [d \in 1..Len(invocations) |->
               IF TaskSet(d) \cap active_tasks[user_id] # {}
               THEN [invocations[d] EXCEPT
                       !.tasks = Retag(@, "pending", "cancelled")]
               ELSE invocations[d]]
       /\ active_tasks' = Del(active_tasks, user_id)
       /\ \E sent \in BOOLEAN :
            io' = <<IF sent
                   THEN Say(user_id, "Stopped", Cardinality(active_tasks[user_id]))
                   ELSE SayRaises(user_id, "Stopped",
                                  Cardinality(active_tasks[user_id]))>>
  ELSE /\ UNCHANGED <<invocations, active_tasks>>
       /\ \E sent \in BOOLEAN :
            io' = <<IF sent THEN Say(user_id, "No active tasks to stop", 0)
                   ELSE SayRaises(user_id, "No active tasks to stop", 0)>>

(* A /stop command arrives. *)
StopCommand ==
  /\ process.pc = "polling"
  /\ \E user_id \in UserIds : stop_command(user_id)
  /\ DemoFrame

(* The bot is started through its start-up script. *)
NextDemo ==
  \/ Launch({"run_bot.py"})
  \/ RunMain
  \/ ParallelDemo
  \/ Announce
  \/ ParallelTask
  \/ Gathered
  \/ StopCommand

SpecDemo == Init /\ [][NextDemo]_vars

(***************************************************************************)
(* Properties.                                                             *)
(***************************************************************************)
CallsOf(events, op) == SelectSeq(events, LAMBDA e : e.op = op)

CoreUnchanged ==
  UNCHANGED <<running, disk, VPS_LIST, user_data, workers, local_files>>

(* The step made exactly one call: a send_message of this kind to chat. *)
OnlyReply(chat_id, kind) ==
  /\ Len(io') = 1
  /\ io'[1].op = "send"
  /\ io'[1].chat = chat_id
  /\ io'[1].kind = kind
  /\ CoreUnchanged

Hosts == 1..Len(VPS_LIST)

(* Thread w ends in this step. *)
Finishes(w) ==
  /\ WorkerSendResult(w) \/ WorkerSendError(w)
  /\ workers' = Exit(w)

EntersReport(w) ==
  /\ WorkerConnect(w) \/ WorkerExec(w) \/ WorkerSendResult(w)
  /\ \E pc2 \in {"send_result", "send_error"}, err \in BOOLEAN :
       /\ pc2 # w.pc
       /\ workers' = Goto(w, [w EXCEPT !.pc = pc2, !.error = err])

AcceptedAttackTexts ==
  {<<Cmd("attack"), TARGET, N80>>,
   <<Cmd("attack"), TARGET, N80, N240>>,
   <<Cmd("attack"), TARGET, N80, N240, N5000>>}

(* C2: an accepted attack dispatch starts a worker on exactly the hosts    *)
(* that are free at invocation, in list order, marks them busy and never   *)
(* takes a busy host; with no free host it replies 'all busy', starts no   *)
(* worker and changes no busy flag.                                        *)
C2_SelectsFreeHosts ==
  [][\A t \in AcceptedAttackTexts :
       running /\ main(ADMIN, t, <<>>) =>
         LET free == {i \in Hosts : ~VPS_LIST[i].busy}
             started == CallsOf(io', "thread_start")
         IN  IF free = {}
             THEN OnlyReply(ADMIN, "all_busy")
             ELSE /\ {started[k].host : k \in 1..Len(started)} = free
                  /\ Len(started) = Cardinality(free)
                  /\ \A k \in 1..(Len(started) - 1) :
                       started[k].host < started[k + 1].host
                  /\ BagCardinality(workers') =
                       BagCardinality(workers) + Cardinality(free)
                  /\ \A i \in free :
                       \E w \in BagToSet(workers') :
                         /\ w.vps = i /\ w.pc = "connect"
                         /\ CopiesIn(w, workers') = CopiesIn(w, workers) + 1
                  /\ \A i \in Hosts : VPS_LIST'[i].busy
                  /\ \A i \in Hosts :
                       VPS_LIST'[i] = [VPS_LIST[i] EXCEPT !.busy = TRUE]]_vars

(* A dispatch has just taken the second of two hosts while the first was   *)
(* busy with an earlier worker.                                            *)
C2_Witness ==
  /\ running
  /\ Len(VPS_LIST) = 2
  /\ Len(CallsOf(io, "thread_start")) = 1
  /\ CallsOf(io, "thread_start")[1].host = 2
  /\ BagCardinality(workers) = 2

(* The admin's /attack texts whose duration token is 241 or whose thread   *)
(* token is 5001.                                                          *)
OverLimitTexts ==
  {t \in AttackTexts :
     \/ Len(t) >= 4 /\ t[4] = N241
     \/ Len(t) >= 5 /\ t[5] = N5001}

(* C3: an admin's /attack with duration > 240 or thread count > 5000 is    *)
(* answered with one rejection (the limit message when the text is well    *)
(* formed), starts no worker and changes no busy flag.                     *)
C3_OverLimitRejected ==
  [][\A t \in OverLimitTexts :
       running /\ main(ADMIN, t, <<>>) =>
         /\ \E kind \in {"usage_attack", "must_be_integers", "max_duration",
                         "max_threads"} : OnlyReply(ADMIN, kind)
         /\ CallsOf(io', "thread_start") = <<>>
         /\ Len(t) \in 4..5 /\ (\A i \in 3..Len(t) : t[i] # NotInt) =>
              io'[1].kind = IF t[4] = N241 THEN "max_duration"
                            ELSE "max_threads"]_vars

(* A duration of 241 has just been rejected while a worker was running.    *)
C3_Witness ==
  /\ running
  /\ Len(io) = 1
  /\ io[1].kind = "max_duration"
  /\ workers # EmptyBag
  /\ \E i \in Hosts : VPS_LIST[i].busy

(* The host an address resolves to: the first record that has it. *)
Configured(ip) == \E i \in Hosts : VPS_LIST[i].ip = ip

FirstWith(ip) ==
  CHOOSE i \in Hosts :
    VPS_LIST[i].ip = ip /\ \A j \in 1..(i - 1) : VPS_LIST[j].ip # ip

TransferOps == {"getFile", "download", "write_local", "connect", "open_sftp",
                "sftp_put", "remove_local"}

(* The requester has given the address of a configured host and now sends  *)
(* a document.                                                             *)
DocumentStep(c) ==
  /\ running
  /\ user_data[c].step = "upload_file"
  /\ main(c, <<>>, <<FILE1>>)

(* C4 as claimed: the document that ends an upload conversation always     *)
(* leads to exactly one remote file-transfer call.                         *)
C4_ExactlyOneTransfer ==
  [][\A c \in ChatIds :
       DocumentStep(c) =>
         /\ Len(CallsOf(io', "sftp_put")) = 1
         /\ user_data'[c] = NoData]_vars

(* C4 amended: /upload of the admin opens the conversation, the address of *)
(* a configured host advances it, and the document then leads to at most   *)
(* one remote file-transfer call - exactly one when the download, the      *)
(* local write, the connection and the sftp session succeeded, none        *)
(* otherwise - to the first host with that address, and clears the         *)
(* requester's pending state; a document from a requester who is not at    *)
(* the file step is answered without any download, connection or transfer. *)
C4_UploadFlow ==
  [][\A c \in ChatIds :
       /\ running /\ c = ADMIN /\ main(c, <<Cmd("upload")>>, <<>>)
          => user_data'[c] = [step |-> "upload_ip", ip |-> <<>>]
       /\ \A ip \in HostTokens :
            running /\ user_data[c].step = "upload_ip" /\ Configured(ip)
            /\ main(c, <<ip>>, <<>>)
            => user_data'[c] = [step |-> "upload_file", ip |-> ip]
       /\ DocumentStep(c)
          => LET puts == CallsOf(io', "sftp_put")
                 opened == \E k \in 1..Len(io') :
                             io'[k].op = "open_sftp" /\ io'[k].kind = "ok"
             IN  /\ Len(puts) = IF opened THEN 1 ELSE 0
                 /\ \A k \in 1..Len(puts) :
                      puts[k].host = FirstWith(user_data[c].ip)
                 /\ user_data'[c] = NoData
                 /\ c = ADMIN
       /\ running /\ user_data[c].step # "upload_file"
          /\ main(c, <<>>, <<FILE1>>)
          => /\ OnlyReply(c, "start_upload_first")
             /\ \A k \in 1..Len(io') : io'[k].op \notin TransferOps]_vars

(* The admin's upload has just been transferred and the pending state is   *)
(* gone.                                                                   *)
C4_Witness ==
  /\ running
  /\ \E k \in 1..Len(io) : io[k].op = "sftp_put" /\ io[k].kind = "ok"
  /\ io[Len(io)].kind = "upload_ok"
  /\ user_data[ADMIN] = NoData

(* C5: the liveness probe connects to every host once, in list order; its  *)
(* report has one line per host in list order, RUNNING when the connection *)
(* succeeded and DOWN when it raised; one alert goes to every admin id     *)
(* when some host is down, and no alert otherwise.                         *)
C5_ProbeReport ==
  [][\A c \in ChatIds :
       running /\ main(c, <<Cmd("cvps")>>, <<>>) =>
         LET connects == CallsOf(io', "connect")
             sends == CallsOf(io', "send")
             alerts == SelectSeq(sends, LAMBDA e : e.kind = "alert")
             report == io'[Len(io')]
             down == {i \in Hosts : connects[i].kind = "raise"}
         IN  /\ Len(connects) = Len(VPS_LIST)
             /\ \A i \in Hosts : connects[i].host = i
             /\ report.op = "send" /\ report.kind = "status"
             /\ report.chat = c
             /\ Len(report.detail) = Len(VPS_LIST)
             /\ \A i \in Hosts :
                  report.detail[i] =
                    VPS_LIST[i].ip \o
                      <<IF connects[i].kind = "ok" THEN "RUNNING" ELSE "DOWN">>
             /\ Len(alerts) = IF down = {} THEN 0 ELSE Len(ADMIN_IDS)
             /\ \A a \in 1..Len(alerts) :
                  /\ alerts[a].chat = ADMIN_IDS[a]
                  /\ alerts[a].detail =
                       LET failed == SelectSeq([i \in Hosts |-> i],
                                               LAMBDA i : i \in down)
                       IN  [k \in 1..Len(failed) |-> VPS_LIST[failed[k]].ip]
             /\ CoreUnchanged]_vars

(* A probe asked for by the other chat has just found the first of two     *)
(* hosts running and the second down, and has alerted the admin.           *)
C5_Witness ==
  /\ running
  /\ Len(VPS_LIST) = 2
  /\ io # <<>>
  /\ io[Len(io)].kind = "status"
  /\ io[Len(io)].chat = STRANGER
  /\ io[Len(io)].detail = <<VPS_LIST[1].ip \o <<"RUNNING">>,
                            VPS_LIST[2].ip \o <<"DOWN">>>>
  /\ \E k \in 1..Len(io) : io[k].kind = "alert" /\ io[k].chat = ADMIN

(* What start-up makes of one record of the file. *)
Reloaded(o) ==
  Vps(o.ip[2], o.user[2], o.password[2],
      IF "busy" \in DOMAIN o THEN o.busy = <<"lit", "true">> ELSE FALSE)

(* C6: saving the host list and loading it again yields the same records   *)
(* in the same order, busy flags included; loading gives a record without  *)
(* a busy key busy = false and keeps the busy value of the others.         *)
C6_RoundTrip ==
  /\ running => LoadConfig(save_config(VPS_LIST)) = VPS_LIST
  /\ disk.exists =>
       /\ Len(LoadConfig(disk)) = Len(disk.VPS_LIST)
       /\ \A i \in 1..Len(disk.VPS_LIST) :
            LoadConfig(disk)[i] = Reloaded(disk.VPS_LIST[i])

(* The process has just started from a file whose first record was busy    *)
(* and whose second record had no busy key.                                *)
C6_Witness ==
  /\ running
  /\ io = <<>>
  /\ Len(VPS_LIST) = 2
  /\ VPS_LIST[1].busy
  /\ ~VPS_LIST[2].busy
  /\ disk = save_config(VPS_LIST)

(* The file and the memory hold the same records but for the busy flags. *)
SameHosts(list1, list2) ==
  /\ Len(list1) = Len(list2)
  /\ \A i \in 1..Len(list1) :
       [list1[i] EXCEPT !.busy = FALSE] = [list2[i] EXCEPT !.busy = FALSE]

(* C7 as claimed: while the process runs the file holds the in-memory host *)
(* list, busy flags included.                                              *)
C7_FileEqualsMemory == running => LoadConfig(disk) = VPS_LIST

(* C7 amended: the host list is saved at start-up and by add-host only.    *)
(* After an /avps that appended a record the file holds the in-memory      *)
(* list, busy flags included; marking a host busy or free does not write   *)
(* the file, so the file always agrees with the memory in length, order,   *)
(* address, username and password, while its busy flags may be stale.      *)
C7_SavedOnAddHost ==
  [][/\ running' => SameHosts(LoadConfig(disk'), VPS_LIST')
     /\ disk' # disk => LoadConfig(disk') = VPS_LIST'
     /\ \A t \in AvpsTexts :
          running /\ Len(t) = 4 /\ main(ADMIN, t, <<>>)
          => /\ LoadConfig(disk') = VPS_LIST'
             /\ Len(VPS_LIST') = Len(VPS_LIST) + 1
     /\ \A w \in Threads :
          WorkerConnect(w) \/ WorkerExec(w) \/ WorkerSendResult(w)
          \/ WorkerSendError(w)
          => disk' = disk
     /\ running /\ running' /\ (\E i \in Hosts : VPS_LIST'[i] # VPS_LIST[i])
          => disk' = disk]_vars

(* A host has just been added and saved while another host was busy. *)
C7_Witness ==
  /\ running
  /\ \E k \in 1..Len(io) : io[k].op = "save"
  /\ \E i \in Hosts : VPS_LIST[i].busy
  /\ workers # EmptyBag
  /\ LoadConfig(disk) = VPS_LIST

GatedCommands ==
  {"attack", "avps", "upload", "ls", "delete", "terminal", "chmod"}

(* C8: a command of the admin-gated set sent from a chat outside the admin *)
(* list is answered with the 'restricted to admins' message alone: no      *)
(* remote session, no worker, no change of the host list, the busy flags   *)
(* or the pending-upload state.                                            *)
C8_StrangerRejected ==
  [][\A t \in StrangerTexts :
       running /\ t[1][1] = "/" /\ t[1][2] \in GatedCommands
       /\ main(STRANGER, t, <<>>)
       => OnlyReply(STRANGER, "restricted")]_vars

(* The other chat has just been turned away while the admin was in the     *)
(* middle of an upload conversation.                                       *)
C8_Witness ==
  /\ running
  /\ Len(io) = 1
  /\ io[1].kind = "restricted"
  /\ io[1].chat = STRANGER
  /\ user_data[ADMIN].step = "upload_file"

(* C9 as claimed: an admin's /attack of 3 to 5 tokens in which the target  *)
(* or any of port, duration and thread count is no integer is rejected     *)
(* with the 'must be integers' message.                                    *)
C9_TargetParsedToo ==
  [][\A t \in AttackTexts :
       running /\ Len(t) \in 3..5
       /\ (\E i \in 2..Len(t) : ~ParseInt(t[i]).ok)
       /\ main(ADMIN, t, <<>>)
       => OnlyReply(ADMIN, "must_be_integers")]_vars

(* C9 amended: an admin's /attack of 3 to 5 tokens in which any of port,   *)
(* duration and thread count (as given) is no integer is rejected with the *)
(* 'must be integers' message, starts no worker and changes no state; the  *)
(* target is not parsed.                                                   *)
C9_NonIntegerRejected ==
  [][\A t \in AttackTexts :
       running /\ Len(t) \in 3..5
       /\ (\E i \in 3..Len(t) : t[i] = NotInt)
       /\ main(ADMIN, t, <<>>)
       => OnlyReply(ADMIN, "must_be_integers")]_vars

(* A thread count that is no integer has just been rejected while a worker *)
(* was running.                                                            *)
C9_Witness ==
  /\ running
  /\ Len(io) = 1
  /\ io[1].kind = "must_be_integers"
  /\ workers # EmptyBag

(* The admin's texts with a wrong number of arguments, and the usage reply *)
(* of each.                                                                *)
WrongArity ==
  {<<t, "usage_attack">> : t \in {x \in AttackTexts : Len(x) \notin 3..5}}
  \cup {<<t, "usage_avps">> : t \in {x \in AvpsTexts : Len(x) # 4}}
  \cup UNION {{<<t, "usage_ls">> :
                 t \in {x \in RemoteTexts : x[1] = Cmd("ls") /\ Len(x) # 2}},
              {<<t, "usage_delete">> :
                 t \in {x \in RemoteTexts : x[1] = Cmd("delete") /\ Len(x) # 3}},
              {<<t, "usage_terminal">> :
                 t \in {x \in RemoteTexts : x[1] = Cmd("terminal") /\ Len(x) < 3}},
              {<<t, "usage_chmod">> :
                 t \in {x \in RemoteTexts : x[1] = Cmd("chmod") /\ Len(x) # 2}}}

(* The admin's well-formed remote commands. *)
WellFormedRemote ==
  {t \in RemoteTexts :
     \/ t[1] \in {Cmd("ls"), Cmd("chmod")} /\ Len(t) = 2
     \/ t[1] = Cmd("delete") /\ Len(t) = 3
     \/ t[1] = Cmd("terminal") /\ Len(t) >= 3}

(* C10: an admin's command with a wrong number of arguments, a remote      *)
(* command naming an address no record has, and an address reply of the    *)
(* upload conversation that names no host are answered with the rejection  *)
(* alone: no remote session, no change of the host list, the busy flags or *)
(* the pending-upload state.                                               *)
C10_InvalidRejected ==
  [][/\ \A x \in WrongArity :
          running /\ main(ADMIN, x[1], <<>>) => OnlyReply(ADMIN, x[2])
     /\ \A t \in WellFormedRemote :
          running /\ ~Configured(t[2]) /\ main(ADMIN, t, <<>>)
          => OnlyReply(ADMIN, "not_found")
     /\ \A c \in ChatIds :
          \A t \in {<<ip>> : ip \in HostTokens} \cup {<<>>, <<IP1, IP1>>} :
            running /\ user_data[c].step = "upload_ip"
            /\ ~(Len(t) = 1 /\ Configured(t[1]))
            /\ main(c, t, <<>>)
            => OnlyReply(c, "not_found")]_vars

(* An address reply that names no host has just been rejected and the      *)
(* conversation is still at the address step.                              *)
C10_Witness ==
  /\ running
  /\ Len(io) = 1
  /\ io[1].kind = "not_found"
  /\ io[1].detail = <<IP_UNKNOWN>>
  /\ user_data[ADMIN].step = "upload_ip"

(* A document arrives from chat c. *)
DocumentFrom(c) == running /\ main(c, <<>>, <<FILE1>>)

(* C11 as claimed: after any document message from a requester has been    *)
(* handled the requester has no pending-upload entry, whatever step the    *)
(* requester was in.                                                       *)
C11_ClearedAfterAnyDocument ==
  [][\A c \in ChatIds : DocumentFrom(c) => user_data'[c] = NoData]_vars

(* C11 amended: a document from a requester at the file step ends with a   *)
(* success or an error reply and leaves the requester without a pending    *)
(* entry, whatever the download, the connection or the transfer did; a     *)
(* document from a requester at another step leaves the requester's entry  *)
(* as it was; the other requesters' entries never change.                  *)
C11_ClearedOnceUploadRuns ==
  [][\A c \in ChatIds :
       DocumentFrom(c) =>
         /\ \A d \in ChatIds \ {c} : user_data'[d] = user_data[d]
         /\ IF user_data[c].step = "upload_file"
            THEN /\ user_data'[c] = NoData
                 /\ io'[Len(io')].op = "send"
                 /\ io'[Len(io')].kind \in {"upload_ok", "upload_error"}
                 /\ io'[Len(io')].kind = "upload_ok"
                    <=> \A k \in 1..Len(io') : io'[k].kind # "raise"
            ELSE /\ user_data'[c] = user_data[c]
                 /\ OnlyReply(c, "start_upload_first")]_vars

(* The admin's upload has just failed at the transfer and the pending      *)
(* entry is gone.                                                          *)
C11_Witness ==
  /\ running
  /\ io # <<>>
  /\ io[Len(io)].kind = "upload_error"
  /\ \E k \in 1..Len(io) : io[k].op = "sftp_put" /\ io[k].kind = "raise"
  /\ user_data[ADMIN] = NoData

(* C12: after handle_file_upload has run the upload, whether the transfer  *)
(* succeeded or the download, the connection or the transfer raised, the   *)
(* local copy of the file no longer exists.                                *)
C12_TempFileReleased ==
  [][\A c \in ChatIds : DocumentStep(c) => FILE1 \notin local_files']_vars

(* The non-empty texts that are not commands. *)
PlainTexts == {t \in Texts : t # <<>> /\ ~StartsWithSlash(t)}

(* C13 as claimed: a plain text from a requester at the address step       *)
(* always prompts for the file and moves the requester to the file step    *)
(* with that address.                                                      *)
C13_AlwaysAdvances ==
  [][\A c \in ChatIds : \A t \in PlainTexts :
       running /\ user_data[c].step = "upload_ip" /\ main(c, t, <<>>)
       => /\ user_data'[c] = [step |-> "upload_file", ip |-> t[1]]
          /\ io' = <<send_message(c, "upload_now", <<>>)>>]_vars

(* C13 amended: a plain text from a requester at the address step that is  *)
(* the address of a configured host prompts for the file and moves the     *)
(* requester to the file step with that address; any other plain text is   *)
(* answered with the not-found reply and leaves the requester at the       *)
(* address step.  Nothing else changes.                                    *)
C13_AdvancesOnConfiguredAddress ==
  [][\A c \in ChatIds : \A t \in PlainTexts :
       running /\ user_data[c].step = "upload_ip" /\ main(c, t, <<>>)
       => IF Len(t) = 1 /\ Configured(t[1])
          THEN /\ user_data' = [user_data EXCEPT ![c] =
                                  [step |-> "upload_file", ip |-> t[1]]]
               /\ io' = <<send_message(c, "upload_now", <<>>)>>
               /\ UNCHANGED <<running, disk, VPS_LIST, workers, local_files>>
          ELSE OnlyReply(c, "not_found")]_vars

(* The admin has just given the address of the second configured host.     *)
C13_Witness ==
  /\ running
  /\ user_data[ADMIN] = [step |-> "upload_file", ip |-> IP2]
  /\ io = <<send_message(ADMIN, "upload_now", <<>>)>>

(* The texts whose first token starts with "/" and is no command keyword.  *)
UnknownCommandTexts ==
  {t \in Texts \cup StrangerTexts :
     StartsWithSlash(t) /\ t[1] \notin {Cmd(k) : k \in Keywords}}

(* C14: a text whose first token starts with "/" and is not a command      *)
(* keyword is answered with exactly one unknown-command reply to its       *)
(* sender and changes nothing: host list, busy flags, config file, worker  *)
(* threads and every requester's pending-upload state stay as they were.   *)
C14_UnknownCommand ==
  [][\A c \in ChatIds : \A t \in UnknownCommandTexts :
       running /\ main(c, t, <<>>)
       => /\ OnlyReply(c, "unknown_command")
          /\ io' = <<send_message(c, "unknown_command", <<>>)>>]_vars

(* The admin, in the middle of an upload conversation, has just been told  *)
(* that the command is unknown.                                            *)
C14_Witness ==
  /\ running
  /\ io = <<send_message(ADMIN, "unknown_command", <<>>)>>
  /\ user_data[ADMIN].step = "upload_file"

(* C15: /start and /help from any chat are answered with the help message  *)
(* and change no state, /cvps from any chat runs the probe and returns its *)
(* report; none of the three is answered with the unknown-command reply or *)
(* the admin rejection.  Stated of the dispatch of src/vps.py.             *)
C15_OpenCommands ==
  [][\A c \in ChatIds :
       /\ \A k \in {"start", "help"} :
            running /\ vps_main(c, <<Cmd(k)>>, <<>>) => OnlyReply(c, "help")
       /\ running /\ vps_main(c, <<Cmd("cvps")>>, <<>>)
          => /\ io'[Len(io')].op = "send"
             /\ io'[Len(io')].chat = c
             /\ io'[Len(io')].kind = "status"
             /\ Len(CallsOf(io', "connect")) = Len(VPS_LIST)
             /\ \A j \in 1..Len(io') :
                  io'[j].kind \notin {"unknown_command", "restricted"}]_vars

(* The step is a fetch: its first call is getUpdates. *)
FetchStep == io' # <<>> /\ io'[1].op = "getUpdates"

(* C16: the cursor passed to each fetch is the loop's offset, which is     *)
(* none from start-up until the first update is handled and the identifier *)
(* of the last update handled plus one afterwards; a fetch happens only    *)
(* when the batch before it is used up; while a batch is not used up the   *)
(* loop's next step handles the first of its remaining updates, and only   *)
(* that one; the cursor changes only when an update is handled and, with   *)
(* identifiers arriving in increasing order, never decreases within a run. *)
C16_CursorAndOrder ==
  [][/\ FetchStep
        => /\ running /\ updates = <<>>
           /\ io'[1].detail = Cursor(offset)
           /\ running' => offset' = offset
     /\ running /\ running' /\ updates # <<>>
        => LET u == Head(updates)
           IN  /\ offset' = <<u.update_id + 1>>
               /\ updates' = Tail(updates)
               /\ IF u.message
                  THEN main(u.chat_id, u.text, u.document)
                  ELSE io' = <<>> /\ CoreUnchanged
     /\ ~running /\ running' => offset' = <<>> /\ updates' = <<>>
     /\ running /\ running' /\ offset' # offset => updates # <<>>
     /\ running /\ running' /\ offset # <<>>
        => offset' # <<>> /\ offset'[1] >= offset[1]]_vars

(* The first update of a batch of two, the admin's /upload with identifier *)
(* 1, has been handled; the second, with identifier 3, is next.            *)
C16_Witness ==
  /\ running
  /\ offset = <<2>>
  /\ updates = <<WithId(TextUpdate(ADMIN, <<IP1>>), 3)>>
  /\ user_data[ADMIN].step = "upload_ip"
  /\ io = <<send_message(ADMIN, "enter_ip", <<>>)>>

(* A call of the step failed: it raised. *)
CallFailed ==
  \E k \in 1..Len(io') : io'[k].kind = "raise" \/ io'[k].op = "send_raise"

(* C19: after start-up no failure of a remote-host call or of a messaging  *)
(* call ends the process: the poll loop is still running after a step in   *)
(* which a call failed.                                                    *)
C19_NoErrorEndsTheProcess ==
  [][running /\ CallFailed => running']_vars

(* C17: the poll loop is ready to handle an update whenever it runs,       *)
(* whatever the worker threads are doing; and handle_attack returns        *)
(* without waiting for a thread: after an accepted dispatch the threads    *)
(* that were running are where they were and every thread it started is    *)
(* at its first step.                                                      *)
C17_AttackDoesNotBlock ==
  /\ [](running /\ workers # EmptyBag => ENABLED Poll(FleetUpdates))
  /\ [][\A t \in AcceptedAttackTexts :
          running /\ main(ADMIN, t, <<>>) =>
            /\ workers \sqsubseteq workers'
            /\ \A w \in BagToSet(workers') :
                 CopiesIn(w, workers') > CopiesIn(w, workers)
                 => w.pc = "connect" /\ VPS_LIST'[w.vps].busy]_vars

(* A second /attack has just started a thread on the second host while the *)
(* thread of the first /attack is waiting for its remote command.          *)
C17_Witness ==
  /\ running
  /\ Len(CallsOf(io, "thread_start")) = 1
  /\ CallsOf(io, "thread_start")[1].host = 2
  /\ \E w \in BagToSet(workers) : w.vps = 1 /\ w.pc = "exec"
  /\ \E w \in BagToSet(workers) : w.vps = 2 /\ w.pc = "connect"

(* The admin's /terminal texts with an address and a command. *)
TerminalTexts == {t \in WellFormedRemote : t[1] = Cmd("terminal")}

(* C18 as claimed: /terminal does not block the poll loop: when its        *)
(* handler returns and the loop is free for the next update, the remote    *)
(* command has not returned yet.                                           *)
C18_TerminalDoesNotBlock ==
  [][\A t \in TerminalTexts :
       running /\ Configured(t[2]) /\ main(ADMIN, t, <<>>)
       => \A k \in 1..Len(io') : io'[k].op # "exec"]_vars

(* C18 amended: /terminal blocks the poll loop: within the handling of     *)
(* that one update the handler connects to the host, runs the remote       *)
(* command when the connection succeeded, and reports the outcome to the   *)
(* requester; it starts no thread.                                         *)
C18_TerminalBlocks ==
  [][\A t \in TerminalTexts :
       running /\ Configured(t[2]) /\ main(ADMIN, t, <<>>)
       => LET n == Len(io')
              connected == io'[1].kind = "ok"
          IN  /\ n = IF connected THEN 3 ELSE 2
              /\ io'[1].op = "connect"
              /\ io'[1].host = FirstWith(t[2])
              /\ connected
                 => /\ io'[2].op = "exec"
                    /\ io'[2].host = io'[1].host
                    /\ io'[2].detail = SubSeq(t, 3, Len(t))
                    /\ io'[2].kind \in RemoteOutcomes \ {"connect_raise"}
              /\ io'[n].op = "send"
              /\ io'[n].chat = ADMIN
              /\ io'[n].kind =
                   IF ~connected \/ io'[2].kind = "exec_raise"
                   THEN "terminal_exception"
                   ELSE IF HasStderr(io'[2].kind) THEN "terminal_error"
                   ELSE "terminal_output"
              /\ CoreUnchanged]_vars

(* The admin's two-word remote command has just run on the first host and  *)
(* its output has been reported.                                           *)
C18_Witness ==
  /\ running
  /\ Len(io) = 3
  /\ io[2].op = "exec"
  /\ io[2].kind = "stdout"
  /\ io[2].detail = <<T("a"), T("b")>>
  /\ io[3].kind = "terminal_output"

(* C20: /ls, /delete, /terminal, /chmod and the upload of a document act   *)
(* on the earliest record with the given address: every connection of the  *)
(* step goes to that record's position with that record's user name and    *)
(* password, also when a later record has the same address.                *)
C20_FirstMatchWins ==
  [][/\ \A t \in WellFormedRemote :
          running /\ Configured(t[2]) /\ main(ADMIN, t, <<>>)
          => LET first == FirstWith(t[2])
                 connects == CallsOf(io', "connect")
             IN  /\ Len(connects) = 1
                 /\ connects[1].host = first
                 /\ connects[1].detail =
                      <<t[2], VPS_LIST[first].user, VPS_LIST[first].password>>
                 /\ \A k \in 1..Len(io') : io'[k].host \in {0, first}
     /\ \A c \in ChatIds :
          DocumentStep(c)
          => LET first == FirstWith(user_data[c].ip)
                 connects == CallsOf(io', "connect")
             IN  /\ Len(connects) <= 1
                 /\ \A k \in 1..Len(connects) :
                      /\ connects[k].host = first
                      /\ connects[k].detail =
                           <<user_data[c].ip, VPS_LIST[first].user,
                             VPS_LIST[first].password>>
                 /\ \A k \in 1..Len(io') : io'[k].host \in {0, first}]_vars

(* Two records share an address and differ in their password; a directory  *)
(* listing has just connected with the first record's password.            *)
C20_Witness ==
  /\ running
  /\ Len(VPS_LIST) = 2
  /\ VPS_LIST[1].ip = VPS_LIST[2].ip
  /\ VPS_LIST[1].password # VPS_LIST[2].password
  /\ Len(io) = 3
  /\ io[1].op = "connect"
  /\ io[1].detail = <<VPS_LIST[1].ip, VPS_LIST[1].user, VPS_LIST[1].password>>
  /\ io[3].kind = "ls_files"

(* C21: a worker's step, failing or not, leaves every other host record    *)
(* and every other thread as they were and writes at most the busy flag of *)
(* its own host record, which it only ever clears; and every live thread   *)
(* can take its next step whatever has happened to the others.             *)
C21_FailureStaysLocal ==
  /\ [](\A w \in Threads : ENABLED WorkerStep(w))
  /\ [][\A w \in Threads :
          WorkerStep(w) =>
            /\ Len(VPS_LIST') = Len(VPS_LIST)
            /\ \A i \in Hosts \ {w.vps} : VPS_LIST'[i] = VPS_LIST[i]
            /\ VPS_LIST'[w.vps] \in
                 {VPS_LIST[w.vps], [VPS_LIST[w.vps] EXCEPT !.busy = FALSE]}
            /\ (workers (-) SetToBag({w})) \sqsubseteq workers']_vars

(* The worker of the first host has failed to connect and freed its host;  *)
(* the worker of the second host is running its command on a busy host.    *)
C21_Witness ==
  /\ running
  /\ Len(VPS_LIST) = 2
  /\ ~VPS_LIST[1].busy /\ VPS_LIST[2].busy
  /\ \E w \in Threads : w.vps = 1 /\ w.pc = "send_error"
  /\ \E w \in Threads : w.vps = 2 /\ w.pc = "exec"
  /\ io = <<Ev("connect", 0, 1, "raise", Creds(1))>>

(* The free hosts, in list order. *)
FreeHosts == SelectSeq([i \in Hosts |-> i], LAMBDA i : ~VPS_LIST[i].busy)

(* The integer a present token stands for, or the default. *)
Given(t, k, default) == IF Len(t) >= k THEN ParseInt(t[k]).val ELSE default

OpenSessions(i) ==
  LET S == {w \in Threads : w.vps = i /\ w.pc \in {"connect", "exec"}}
  IN  IF S = {} THEN 0 ELSE BagCardinality([w \in S |-> CopiesIn(w, workers)])

(* C28: at any time at most one attack worker per host record is           *)
(* connecting to the host or running its command there.                    *)
C28_OneWorkerPerHost == \A i \in Hosts : OpenSessions(i) <= 1

(* C29: in every state of a running process each host whose busy flag is   *)
(* set has a worker that is connecting to it or running its command there  *)
(* and will clear the flag.                                                *)
C29_BusyHasOwner ==
  running => \A i \in Hosts : VPS_LIST[i].busy => OpenSessions(i) >= 1

(* The chats of the admin list. *)
Admins == {ADMIN_IDS[i] : i \in 1..Len(ADMIN_IDS)}

(* C30: every chat with a pending-upload entry is in the admin list; and   *)
(* whatever a chat outside the list sends, in whatever state, its handling *)
(* makes no file lookup, no download, no local write and no transfer to a  *)
(* host, and changes nobody's pending-upload entry.                        *)
C30_OnlyAdminsUpload ==
  /\ [](\A c \in ChatIds : user_data[c].step # "none" => c \in Admins)
  /\ [][\A u \in OpsUpdates :
          running /\ u.chat_id \notin Admins
          /\ main(u.chat_id, u.text, u.document)
          => /\ \A k \in 1..Len(io') : io'[k].op \notin TransferOps \ {"connect"}
             /\ user_data' = user_data
             /\ local_files' = local_files]_vars

(* The other chat has sent a document while the admin was at the file step *)
(* and has been told to start with /upload; the admin's entry is untouched. *)
C30_Witness ==
  /\ running
  /\ io = <<send_message(STRANGER, "start_upload_first", <<>>)>>
  /\ user_data[ADMIN].step = "upload_file"
  /\ user_data[STRANGER] = NoData

(* What int() makes of each number token: <<n>>, or <<>> for ValueError.   *)
TokenValue(tok) ==
  CASE tok = N0 -> <<0>>
    [] tok = NMinus1 -> <<0 - 1>>
    [] tok = N80 -> <<80>>
    [] tok = N240 -> <<240>>
    [] tok = N241 -> <<241>>
    [] tok = N5000 -> <<5000>>
    [] tok = N5001 -> <<5001>>
    [] OTHER -> <<>>

(* The value of token k of t, the default when t has no token k. *)
ValueAt(t, k, default) == IF Len(t) >= k THEN TokenValue(t[k]) ELSE <<default>>

(* The first reply is not a validation refusal: the dispatch stage is      *)
(* reached.                                                                *)
PassesValidation == io' # <<>> /\ io'[1].kind \in {"all_busy", "attack_started"}

(* C27: an admin's /attack of three to five tokens passes validation       *)
(* exactly when port, duration and thread count are integers, the duration *)
(* is at most 240 and the thread count at most 5000, where an omitted      *)
(* duration counts as 120 and an omitted thread count as 100; zero and     *)
(* negative values pass; the threads started carry these values.           *)
C27_ValidationLimits ==
  [][\A t \in ValidationTexts :
       running /\ main(ADMIN, t, <<>>) =>
         LET port == ValueAt(t, 3, 0)
             duration == ValueAt(t, 4, 120)
             threads == ValueAt(t, 5, 100)
             valid == /\ port # <<>> /\ duration # <<>> /\ threads # <<>>
                      /\ duration[1] <= 240
                      /\ threads[1] <= 5000
         IN  /\ PassesValidation <=> valid
             /\ \A w \in BagToSet(workers' (-) workers) :
                  /\ w.port = port[1]
                  /\ w.duration = duration[1]
                  /\ w.threads = threads[1]]_vars

(* A dispatch with port 0, duration -1 and no thread count has started a   *)
(* thread with duration -1 and 100 threads.                                *)
C27_Witness ==
  /\ running
  /\ io # <<>>
  /\ io[1].kind = "attack_started"
  /\ \E w \in Threads : w.port = 0 /\ w.duration = 0 - 1 /\ w.threads = 100

(* The step delivers a report of thread w to the requester. *)
Delivers(w) ==
  /\ WorkerSendResult(w) \/ WorkerSendError(w)
  /\ io'[1].op = "send"

(* Host record i exists and its busy flag is set. *)
BusyAt(i) == IF i \in Hosts THEN VPS_LIST[i].busy ELSE FALSE

(* The last step made a report call of a worker, delivered or raising. *)
ReportCall ==
  IF io = <<>> THEN FALSE
  ELSE /\ io[1].op \in {"send", "send_raise"}
       /\ io[1].kind \in {"attack_completed", "attack_failed", "attack_error"}

ReplyContains(e, fragment) ==
  /\ e.op = "reply_text"
  /\ \E k \in 1..Len(e.payload) : e.payload[k] = fragment

(* The emoji of a list of reaction objects, in list order. *)
EmojiOf(reaction) == [k \in 1..Len(reaction) |-> reaction[k].emoji]

(* C22: react_command on a message that is not a reply makes one call, a   *)
(* reply whose text contains 'Please reply to a message'; on a reply       *)
(* without emoji arguments it makes one call, a reply whose text contains  *)
(* 'Provide emojis'; in neither case is set_message_reaction called.       *)
C22_ReactValidatesInput ==
  [][\A message \in ReactMessages, args \in EmojiArgs :
       react_command(message, args) =>
         /\ message.reply_to_message = <<>>
            => /\ Len(io') = 1
               /\ ReplyContains(io'[1], "Please reply to a message")
         /\ message.reply_to_message # <<>> /\ args = <<>>
            => /\ Len(io') = 1
               /\ ReplyContains(io'[1], "Provide emojis")
         /\ message.reply_to_message = <<>> \/ args = <<>>
            => CallsOf(io', "set_message_reaction") = <<>>]_vars

(* A reply without emoji arguments has been answered with the request for  *)
(* emojis.                                                                 *)
C22_Witness ==
  /\ Len(io) = 1
  /\ io[1].op = "reply_text"
  /\ io[1].payload = <<"Provide emojis">>
  /\ io[1].chat_id = 321

(* C23: react_command on a reply with emoji arguments sets the reactions   *)
(* once, with the emoji arguments in the order given and in the chat of    *)
(* the command, and after that replies with a text containing 'Reactions   *)
(* added'.                                                                 *)
C23_ReactCallsHelper ==
  [][\A message \in ReactMessages, args \in EmojiArgs :
       message.reply_to_message # <<>> /\ args # <<>>
       /\ react_command(message, args)
       => /\ Len(io') = 2
          /\ io'[1].op = "set_message_reaction"
          /\ io'[1].chat_id = message.chat_id
          /\ EmojiOf(io'[1].payload) = args
          /\ ReplyContains(io'[2], "Reactions added")]_vars

(* The reactions fire, thumbs up have been set in that order on the        *)
(* replied message and the confirmation has been sent.                     *)
C23_Witness ==
  /\ Len(io) = 2
  /\ io[1].op = "set_message_reaction"
  /\ io[1].message_id = 777
  /\ EmojiOf(io[1].payload) = <<"fire", "thumbs_up">>
  /\ io[2].op = "reply_text"
  /\ io[2].payload = <<"Reactions added">>

(* C24: set_reactions_parallel makes exactly one set_message_reaction call *)
(* with the chat id and message id it was given and a list of one emoji    *)
(* reaction object per input emoji, in input order.                        *)
C24_OneReactionCall ==
  [][\A chat_id \in ReactChatIds, message_id \in MessageIds \cup RepliedIds,
        emojis \in EmojiArgs :
       io' = set_reactions_parallel(chat_id, message_id, emojis) /\ ReactFrame
       => /\ Len(io') = 1
          /\ io'[1].op = "set_message_reaction"
          /\ io'[1].chat_id = chat_id
          /\ io'[1].message_id = message_id
          /\ Len(io'[1].payload) = Len(emojis)
          /\ \A k \in 1..Len(emojis) :
               io'[1].payload[k] = ReactionTypeEmoji(emojis[k])]_vars

(* The helper has been called for chat 123 and message 456 with thumbs up  *)
(* and joy.                                                                *)
C24_Witness ==
  /\ Len(io) = 1
  /\ io[1].op = "set_message_reaction"
  /\ io[1].chat_id = 123
  /\ io[1].message_id = 456
  /\ EmojiOf(io[1].payload) = <<"thumbs_up", "joy">>

(* The first character of the text is "/". *)
SlashFirst(text) == text # <<>> /\ Head(Head(text)) = "/"

(* The update is one of the three that belong to the upload conversation   *)
(* of its sender: /upload, an address reply at the address step, or a      *)
(* document at the file step.                                              *)
OwnUploadMessage(u) ==
  \/ u.text # <<>> /\ u.text[1] = Cmd("upload")
  \/ /\ u.text # <<>> /\ ~SlashFirst(u.text) /\ u.document = <<>>
     /\ user_data[u.chat_id].step = "upload_ip"
  \/ u.document # <<>> /\ user_data[u.chat_id].step = "upload_file"

(* C31: the handling of a message never changes the pending-upload entry   *)
(* of a chat other than its sender; it changes the sender's entry only     *)
(* when the message is the sender's /upload, address reply or document;    *)
(* and a text starting with "/" other than /upload, sent in the middle of  *)
(* the conversation, is handled as a command - it is not taken as the      *)
(* address reply - and leaves every entry as it was.                       *)
C31_PendingChangesByOwnerOnly ==
  [][\A u \in OpsUpdates :
       running /\ main(u.chat_id, u.text, u.document) =>
         /\ \A c \in ChatIds \ {u.chat_id} : user_data'[c] = user_data[c]
         /\ user_data' # user_data => OwnUploadMessage(u)
         /\ SlashFirst(u.text) /\ u.text[1] # Cmd("upload")
            => /\ user_data' = user_data
               /\ \A k \in 1..Len(io') :
                    /\ io'[k].kind # "upload_now"
                    /\ ~(io'[k].kind = "not_found" /\ io'[k].detail = u.text)]_vars

(* The admin, at the address step, has sent /status: it was answered as an  *)
(* unknown command and the admin is still at the address step.             *)
C31_Witness ==
  /\ running
  /\ io = <<send_message(ADMIN, "unknown_command", <<>>)>>
  /\ user_data[ADMIN] = [step |-> "upload_ip", ip |-> <<>>]
  /\ VPS_LIST # <<>>

(* C32: while the process runs no step removes or reorders a host record   *)
(* or changes a record's address, username or password; the list grows     *)
(* only by one record at a time, at the end, with busy false, made of the   *)
(* three arguments of an admin's /avps, and the config file is saved with   *)
(* it; and an admin's /avps with three arguments always appends, also when  *)
(* a record with that address exists.                                      *)
C32_ListAppendOnly ==
  [][/\ running /\ running' =>
          /\ Len(VPS_LIST') \in {Len(VPS_LIST), Len(VPS_LIST) + 1}
          /\ \A i \in Hosts :
               /\ VPS_LIST'[i].ip = VPS_LIST[i].ip
               /\ VPS_LIST'[i].user = VPS_LIST[i].user
               /\ VPS_LIST'[i].password = VPS_LIST[i].password
          /\ Len(VPS_LIST') = Len(VPS_LIST) + 1 =>
               /\ \E t \in AvpsTexts :
                    /\ Len(t) = 4
                    /\ VPS_LIST'[Len(VPS_LIST')] = Vps(t[2], t[3], t[4], FALSE)
               /\ \A i \in Hosts : VPS_LIST'[i] = VPS_LIST[i]
               /\ disk' = File(json_dump(VPS_LIST'))
               /\ io'[1].op = "save"
     /\ \A t \in AvpsTexts :
          running /\ Len(t) = 4 /\ main(ADMIN, t, <<>>)
          => VPS_LIST' = Append(VPS_LIST, Vps(t[2], t[3], t[4], FALSE))]_vars

(* A second record with the address of the first has been appended.        *)
C32_Witness ==
  /\ running
  /\ Len(VPS_LIST) = 2
  /\ VPS_LIST[1].ip = IP1 /\ VPS_LIST[2].ip = IP1
  /\ VPS_LIST[2] = Vps(IP1, USER1, PW2, FALSE)
  /\ io # <<>> /\ io[1].op = "save"

(* The messages whose handling C33 is about: /ls, /delete, /terminal,      *)
(* /chmod, /cvps and documents.                                            *)
BusyBlindUpdates ==
  {u \in OpsUpdates :
     \/ u.document # <<>>
     \/ u.text # <<>> /\ u.text[1] \in {Cmd("ls"), Cmd("delete"),
                                        Cmd("terminal"), Cmd("chmod"),
                                        Cmd("cvps")}}

(* C33: /ls, /delete, /terminal, /chmod, /cvps and documents leave every   *)
(* host record, busy flag included, as it was, whatever their outcome; an  *)
(* admin's well-formed remote command on a configured address connects to  *)
(* the first record with that address, busy or not; /cvps connects to      *)
(* every record, busy or not; and when an upload connects, it connects to  *)
(* the first record with the stored address, busy or not.                  *)
C33_BusyFlagIgnored ==
  [][\A u \in BusyBlindUpdates :
       running /\ main(u.chat_id, u.text, u.document) =>
         /\ VPS_LIST' = VPS_LIST
         /\ u.chat_id = ADMIN /\ u.text \in WellFormedRemote
            /\ Configured(u.text[2])
            => io'[1].op = "connect" /\ io'[1].host = FirstWith(u.text[2])
         /\ u.text = <<Cmd("cvps")>>
            => \A i \in Hosts : \E k \in 1..Len(io') :
                 io'[k].op = "connect" /\ io'[k].host = i
         /\ u.document # <<>> =>
              \A k \in 1..Len(io') :
                io'[k].op = "connect"
                => io'[k].host = FirstWith(user_data[u.chat_id].ip)]_vars

(* A remote command has run in a session on the first host while that      *)
(* host's busy flag was set, and the flag is still set.                    *)
C33_Witness ==
  /\ running
  /\ Len(io) = 3
  /\ io[1].op = "connect" /\ io[1].host = 1 /\ io[1].kind = "ok"
  /\ io[2].op = "exec"
  /\ VPS_LIST[1].busy

(* The invocations that own a task of the set tracked. *)
OwnersOf(tracked) == {d \in 1..Len(invocations) : TaskSet(d) \cap tracked # {}}

(* The tasks of invocation d that are finished by cancellation, after the step. *)
NewlyCancelled(d) ==
  CopiesIn("cancelled", invocations'[d].tasks)
  - CopiesIn("cancelled", invocations[d].tasks)

(* C35: a /stop of a user with an entry in active_tasks cancels every      *)
(* tracked task of that user that is not done, leaves the finished ones as *)
(* they are, deletes the entry, reports the number of tasks that were      *)
(* tracked and leaves the other users' entries and tasks alone; a /stop of *)
(* a user without an entry reports that there is nothing to stop and       *)
(* changes nothing.                                                        *)
C35_StopCancelsTracked ==
  [][\A u \in UserIds :
       process.pc = "polling" /\ stop_command(u) =>
         IF u \in DOMAIN active_tasks
         THEN /\ u \notin DOMAIN active_tasks'
              /\ \A v \in DOMAIN active_tasks \ {u} :
                   /\ v \in DOMAIN active_tasks'
                   /\ active_tasks'[v] = active_tasks[v]
              /\ Len(invocations') = Len(invocations)
              /\ \A d \in 1..Len(invocations) :
                   IF d \in OwnersOf(active_tasks[u])
                   THEN /\ ~BagIn("pending", invocations'[d].tasks)
                        /\ NewlyCancelled(d) = CopiesIn("pending", invocations[d].tasks)
                        /\ CopiesIn("done", invocations'[d].tasks)
                             = CopiesIn("done", invocations[d].tasks)
                        /\ CopiesIn("raised", invocations'[d].tasks)
                             = CopiesIn("raised", invocations[d].tasks)
                   ELSE invocations'[d] = invocations[d]
              /\ Len(io') = 1
              /\ io'[1].text = "Stopped"
              /\ io'[1].user = u
              /\ io'[1].count = Cardinality(active_tasks[u])
         ELSE /\ active_tasks' = active_tasks
              /\ invocations' = invocations
              /\ Len(io') = 1
              /\ io'[1].text = "No active tasks to stop"
              /\ io'[1].user = u]_vars

(* A /stop has just cancelled part of one user's five tracked tasks, the   *)
(* rest had finished, and the other user's tasks are still tracked.        *)
C35_Witness ==
  /\ Len(io) = 1
  /\ io[1].text = "Stopped"
  /\ io[1].count = TASKS
  /\ io[1].user \notin DOMAIN active_tasks
  /\ DOMAIN active_tasks # {}
  /\ \E d \in 1..Len(invocations) :
       /\ invocations[d].user = io[1].user
       /\ BagIn("cancelled", invocations[d].tasks)
       /\ BagIn("done", invocations[d].tasks)
  /\ \E d \in 1..Len(invocations) :
       /\ invocations[d].user # io[1].user
       /\ BagIn("pending", invocations[d].tasks)

(* The invocations whose handler has ended, by return or by exception. *)
Finished == {d \in 1..Len(invocations) : invocations[d].pc \in {"returned", "failed"}}

(* The task identities held in active_tasks. *)
Tracked == UNION {active_tasks[u] : u \in DOMAIN active_tasks}

(* C36: once a /parallel handler has ended none of its five tasks is in    *)
(* active_tasks, and no user is mapped to an empty set.                    *)
C36_FinishedUntracked ==
  /\ \A d \in Finished : TaskSet(d) \cap Tracked = {}
  /\ \A u \in DOMAIN active_tasks : active_tasks[u] # {}

emoji_reactions ==
  {"thumbs_up", "thumbs_down", "heart", "joy", "open_mouth", "cry", "rage", "tada"}

(* The keyword lists of handle_text_message, in the order of its tests. *)
KEYWORDS ==
  <<[emoji |-> "wave",
      words |-> {<<"h", "e", "l", "l", "o">>,
                 <<"h", "i">>,
                 <<"h", "e", "y">>}],
     [emoji |-> "thumbs_up",
      words |-> {<<"g", "o", "o", "d">>,
                 <<"g", "r", "e", "a", "t">>,
                 <<"a", "w", "e", "s", "o", "m", "e">>,
                 <<"a", "m", "a", "z", "i", "n", "g">>}],
     [emoji |-> "heart",
      words |-> {<<"l", "o", "v", "e">>,
                 <<"l", "i", "k", "e">>,
                 <<"a", "d", "o", "r", "e">>}],
     [emoji |-> "joy",
      words |-> {<<"l", "o", "l">>,
                 <<"h", "a", "h", "a">>,
                 <<"f", "u", "n", "n", "y">>,
                 <<"l", "a", "u", "g", "h">>}],
     [emoji |-> "open_mouth",
      words |-> {<<"w", "o", "w">>,
                 <<"o", "m", "g">>,
                 <<"i", "n", "c", "r", "e", "d", "i", "b", "l", "e">>}],
     [emoji |-> "cry",
      words |-> {<<"s", "a", "d">>,
                 <<"c", "r", "y">>,
                 <<"t", "e", "a", "r", "s">>}],
     [emoji |-> "rage",
      words |-> {<<"a", "n", "g", "r", "y">>,
                 <<"m", "a", "d">>,
                 <<"f", "u", "r", "i", "o", "u", "s">>}],
     [emoji |-> "tada",
      words |-> {<<"p", "a", "r", "t", "y">>,
                 <<"c", "e", "l", "e", "b", "r", "a", "t", "e">>,
                 <<"c", "o", "n", "g", "r", "a", "t", "s">>}]>>

(* The upper-case letters of the texts below. *)
UpperCase == "H" :> "h" @@ "I" :> "i" @@ "L" :> "l" @@ "O" :> "o" @@ "V" :> "v" @@ "W" :> "w" @@ "S" :> "s"

(* str.lower() *)
lower(text) ==
  [i \in 1..Len(text) |->
     IF text[i] \in DOMAIN UpperCase THEN UpperCase[text[i]] ELSE text[i]]

(* word in message_text: the word occurs as a substring. *)
Contains(text, word) ==
  \E i \in 0..(Len(text) - Len(word)) :
    \A j \in 1..Len(word) : text[i + j] = word[j]

(* The categories whose test any(word in message_text ...) is true. *)
Matched(text) ==
  {k \in 1..Len(KEYWORDS) :
     \E word \in KEYWORDS[k].words : Contains(lower(text), word)}

(* "Hi", "this", "ok", "LOL wow", "i love sad mad", "So" *)
MessageTexts ==
  {<<"H", "i">>,
   <<"t", "h", "i", "s">>,
   <<"o", "k">>,
   <<"L", "O", "L", " ", "w", "o", "w">>,
   <<"i", " ", "l", "o", "v", "e", " ", "s", "a", "d", " ", "m", "a", "d">>,
   <<"S", "o">>}

TextFrame ==
  /\ UNCHANGED <<environ, process, active_tasks>>
  /\ FleetIdle

(* handle_text_message up to its await: one coroutine per matched          *)
(* category, or one with a random emoji; gather schedules them.            *)
handle_text_message(user_id, text) ==
  LET m == Len(invocations) + 1
      IN  \E tasks \in IF Matched(text) # {}
                        THEN {{[msg |-> m, emoji |-> KEYWORDS[k].emoji] :
                                 k \in Matched(text)}}
                        ELSE {{[msg |-> m, emoji |-> e]} : e \in emoji_reactions} :
            /\ reaction_tasks' = reaction_tasks (+) SetToBag(tasks)
            /\ launched' = launched + Cardinality(tasks)
            /\ invocations' =
                 Append(invocations,
                        [user |-> user_id, pc |-> "gather",
                         tasks |-> SetToBag({t.emoji : t \in tasks}),
                         success_count |-> <<>>])
            /\ UNCHANGED reaction_counts
            /\ io' = <<>>

(* A text message that is not a command arrives. *)
TextMessage ==
  /\ process.pc = "polling"
  /\ Len(invocations) < MaxTexts
  /\ \E user_id \in UserIds, text \in MessageTexts :
       handle_text_message(user_id, text)
  /\ TextFrame

(* Variant: the count is set to one, not incremented. *)
add_reaction_Sets(task) == Put(reaction_counts, task.emoji, 1)

(* _add_reaction after its sleep:                                          *)
(* self.reaction_counts[emoji] = self.reaction_counts.get(emoji, 0) + 1    *)
add_reaction(task) ==
  Put(reaction_counts, task.emoji,
      (IF task.emoji \in DOMAIN reaction_counts
       THEN reaction_counts[task.emoji] ELSE 0) + 1)

(* The sleep of one reaction coroutine ends and it updates the count. *)
AddReaction ==
  /\ \E task \in BagToSet(reaction_tasks) :
       /\ reaction_counts' = add_reaction(task)
       /\ reaction_tasks' = reaction_tasks (-) SetToBag({task})
  /\ io' = <<>>
  /\ UNCHANGED <<invocations, launched>>
  /\ TextFrame

(* gather returns when the handler's coroutines are done; no task object   *)
(* has an _emoji attribute, so no confirmation is sent.                    *)
TextDone ==
  /\ \E m \in 1..Len(invocations) :
       /\ invocations[m].pc = "gather"
       /\ \A task \in BagToSet(reaction_tasks) : task.msg # m
       /\ invocations' = [invocations EXCEPT ![m].pc = "returned"]
  /\ io' = <<>>
  /\ UNCHANGED <<reaction_counts, reaction_tasks, launched>>
  /\ TextFrame

(* Any entry script is started; text messages arrive while the bot polls. *)
NextCounts ==
  \/ Launch(Entries)
  \/ RunMain
  \/ TextMessage
  \/ AddReaction
  \/ TextDone

SpecCounts == Init /\ [][NextCounts]_vars

RECURSIVE Total(_)
(* sum(self.reaction_counts.values()) *)
Total(d) ==
  IF DOMAIN d = {} THEN 0
  ELSE LET k == CHOOSE x \in DOMAIN d : TRUE
       IN  d[k] + Total(Del(d, k))

RECURSIVE Created(_)
(* The reaction coroutines created by the first n handlers. *)
Created(n) ==
  IF n = 0 THEN 0
  ELSE BagCardinality(invocations[n].tasks) + Created(n - 1)

(* C34: no reaction-count update is lost: the counts add up to the number  *)
(* of reaction coroutines created minus those still sleeping, so once      *)
(* every text handler has returned the sum equals the number created; a    *)
(* handler creates at least one coroutine.                                 *)
C34_NoUpdateLost ==
  /\ Total(reaction_counts) + BagCardinality(reaction_tasks) = launched
  /\ launched = Created(Len(invocations))
  /\ \A m \in 1..Len(invocations) : BagCardinality(invocations[m].tasks) >= 1
  /\ (\A m \in 1..Len(invocations) : invocations[m].pc = "returned")
       => Total(reaction_counts) = launched

(* Every text handler has returned, together they created five or more    *)
(* coroutines and two of these updated the same count.                     *)
C34_Witness ==
  /\ Len(invocations) = MaxTexts
  /\ \A m \in 1..Len(invocations) : invocations[m].pc = "returned"
  /\ \E e \in DOMAIN reaction_counts : reaction_counts[e] >= 2
  /\ launched >= 5
  /\ Total(reaction_counts) = launched

(* The entry scripts that start the bot. *)
BotEntries == {"run_bot.py", "parallel_reactions_bot.py"}

(* C38: the bot polls only after its start-up checks have passed: with a   *)
(* token, and through run_bot.py only on Python 3.8 or later.  Started     *)
(* with a missing or empty token the bot has exited with status 1 and a    *)
(* ValueError before any polling, and validate_config gives False.         *)
C38_PollsOnlyAfterChecks ==
  /\ process.pc = "polling" =>
       /\ ~Falsy(environ)
       /\ process.entry \in BotEntries
       /\ process.entry = "run_bot.py" =>
            /\ check_environment = "True"
            /\ ~VersionLess(process.version, <<3, 8>>)
  /\ (process.pc # "off" /\ process.entry \in BotEntries /\ Falsy(environ)) =>
       /\ process.pc = "exited"
       /\ process.status = 1
  /\ validate_config \in {"True", "False"}
  /\ Falsy(environ) => validate_config = "False"
  /\ (process.pc = "exited" /\ process.entry = "bot_config.py" /\ Falsy(environ)) =>
       /\ process.status = 0
       /\ io = <<Out("Configuration validation failed")>>

(* The bot was started with an empty token and has exited with status 1    *)
(* on the ValueError of its import.                                        *)
C38_Witness ==
  /\ environ = <<"">>
  /\ process.pc = "exited"
  /\ process.entry = "run_bot.py"
  /\ process.status = 1
  /\ io = <<Out("ValueError")>>

====
